---------------------------- MODULE Spec2Model ----------------------------
(***************************************************************************)
(* The PA-RISC I/O SAPIC driver (drivers/parisc/iosapic.c): the interrupt  *)
(* routing table (IRT) loaded from firmware, controller registration, the  *)
(* binding of PCI devices to redirection lines and the mask / unmask /     *)
(* end-of-interrupt / affinity callbacks that program the redirection      *)
(* table (IRdT) through the select / window register pair.                 *)
(*                                                                         *)
(* Representation.  TLC integers are 32-bit signed, so a u32 is a pair of  *)
(* 16-bit halves <<hi, lo>> and a 64-bit address is four 16-bit limbs      *)
(* <<l3, l2, l1, l0>>, most significant first.  A pointer into the IRT is  *)
(* the 1-based index of the entry, NULL is 0.                              *)
(***************************************************************************)
EXTENDS Integers, Sequences, FiniteSets, TLC

(***************************************************************************)
(* Bounds of the model.                                                    *)
(***************************************************************************)
MaxIsi == 1      \* controllers registered
MaxBinds == 2    \* distinct <<controller, device>> pairs bound
MaxIrt == 3      \* entries of a table the lookup is applied to
MaxCalls == 2    \* irq_chip callbacks entered

\* a null pointer; IRT entries are referred to by their 1-based index
NULL == 0

(***************************************************************************)
(* 16-bit and 32-bit arithmetic.                                           *)
(***************************************************************************)
Half == 256 * 256

RECURSIVE And16(_, _, _)
And16(a, b, n) ==
    IF n = 0 THEN 0
    ELSE (IF a % 2 = 1 /\ b % 2 = 1 THEN 1 ELSE 0) + 2 * And16(a \div 2, b \div 2, n - 1)

RECURSIVE Or16(_, _, _)
Or16(a, b, n) ==
    IF n = 0 THEN 0
    ELSE (IF a % 2 = 1 \/ b % 2 = 1 THEN 1 ELSE 0) + 2 * Or16(a \div 2, b \div 2, n - 1)

And32(x, y) == << And16(x[1], y[1], 16), And16(x[2], y[2], 16) >>
Or32(x, y) == << Or16(x[1], y[1], 16), Or16(x[2], y[2], 16) >>

\* x >> 4 and x << 12 on a u32
Shr4(x) == << x[1] \div 16, (x[1] % 16) * 4096 + x[2] \div 16 >>
Shl12(x) == << (x[1] % 16) * 4096 + x[2] \div 16, (x[2] % 16) * 4096 >>

Swab16(h) == (h % 256) * 256 + h \div 256
\* PA-RISC is big-endian: cpu_to_le32 swaps the four bytes
cpu_to_le32(x) == << Swab16(x[2]), Swab16(x[1]) >>

U32(n) == << n \div Half, n % Half >>
(***************************************************************************)
(* Constants of iosapic_private.h, asm/pdc.h and linux/pci.h.              *)
(***************************************************************************)
IRT_IOSAPIC_TYPE == 139
IRT_IOSAPIC_LENGTH == 16
IRT_VECTORED_INTR == 0
IRT_PO_MASK == 3
IRT_ACTIVE_HI == 1
IRT_ACTIVE_LO == 3
IRT_EL_MASK == 3
IRT_EL_SHIFT == 2
IRT_EDGE_TRIG == 1
IRT_LEVEL_TRIG == 3
IRT_DEV_SHIFT == 2
IRT_IRQ_DEVNO_MASK == 127
PDC_OK == 0
PDC_BAD_PROC == -1
SUPERIO_USB_FN == 2

(***************************************************************************)
(* Register map and IRdT bits (iosapic.c).                                 *)
(***************************************************************************)
IOSAPIC_REG_VERSION == 1
IOSAPIC_REG_EOI == 64
IOSAPIC_IRDT_ENTRY(idx) == 16 + idx * 2
IOSAPIC_IRDT_ENTRY_HI(idx) == 17 + idx * 2
\* ((ver) & 0x00ff0000) >> 0x10: the low byte of the upper half
IOSAPIC_IRDT_MAX_ENTRY(ver) == ver[1] % 256
IOSAPIC_IRDT_ENABLE == << 1, 0 >>
IOSAPIC_IRDT_PO_LOW == << 0, 8192 >>
IOSAPIC_IRDT_LEVEL_TRIG == << 0, 32768 >>

(***************************************************************************)
(* Addresses.  A 64-bit address is <<l3, l2, l1, l0>>.  Controllers sit at *)
(* 0xfed30800, 0xfed32800 and 0xfed34800; firmware and 64-bit kernels      *)
(* name them with the upper 32 bits set, 32-bit kernels with an unsigned   *)
(* long of 32 bits.                                                        *)
(***************************************************************************)
PhysA == << 65235, 2048 >>
PhysB == << 65235, 10240 >>
PhysC == << 65235, 18432 >>
Phys == { PhysA, PhysB, PhysC }
FExt(p) == << 65535, 65535, p[1], p[2] >>
ZExt(p) == << 0, 0, p[1], p[2] >>
\* the unsigned long a caller of the build passes for the controller at p
HpaOf(p, is64) == IF is64 THEN FExt(p) ELSE ZExt(p)
\* (hpa) | 0xffffffff00000000ULL
\* or-ing a limb with 0xffff gives 0xffff
OrHighFill(a) == << 65535, 65535, a[3], a[4] >>

\* as COMPARE_IRTE_ADDR, with the comparison of the 64-bit build on every build
COMPARE_IRTE_ADDR_exact(irte, hpa, is64) == irte.dest_iosapic_addr = hpa

\* #ifdef CONFIG_64BIT ... #else ... #endif
COMPARE_IRTE_ADDR(irte, hpa, is64) ==
    IF is64 THEN irte.dest_iosapic_addr = hpa
    ELSE irte.dest_iosapic_addr = OrHighFill(hpa)

(***************************************************************************)
(* struct irt_entry.  src_bus_id and src_seg_id are never read.            *)
(***************************************************************************)
IrtEntry(type, len, itype, pt, devno, intin, addr) ==
    [ entry_type |-> type, entry_length |-> len, interrupt_type |-> itype,
      polarity_trigger |-> pt, src_bus_irq_devno |-> devno,
      dest_iosapic_intin |-> intin, dest_iosapic_addr |-> addr ]

ZeroEntry == IrtEntry(0, 0, 0, 0, 0, 0, << 0, 0, 0, 0 >>)

\* The routing tables firmware may hold.  Input-line numbers name lines the
\* controller has: firmware describes the wiring of the machine.
IrtMain ==
    << IrtEntry(139, 16, 0, 15, 4, 0, FExt(PhysA)),   \* slot 1 INTA -> A line 0
       IrtEntry(0, 16, 0, 15, 8, 0, FExt(PhysA)),     \* wrong type tag
       IrtEntry(139, 16, 0, 5, 8, 1, FExt(PhysA)),    \* slot 2 INTA -> A line 1
       IrtEntry(139, 16, 0, 15, 13, 1, FExt(PhysA)),  \* slot 3 INTB -> A line 1
       IrtEntry(139, 16, 0, 7, 4, 0, FExt(PhysB)),    \* slot 1 INTA -> B line 0
       IrtEntry(139, 16, 0, 15, 11, 0, FExt(PhysA)) >> \* slot 2 INTD -> A line 0
IrtSmall ==
    << IrtEntry(139, 16, 0, 15, 4, 0, FExt(PhysB)) >>
\* firmware tables are referred to by name
FirmwareTables == { "Main", "Small" }
FirmwareIrt(name) == IF name = "Main" THEN IrtMain ELSE IrtSmall

\* what kmalloc'ed memory the firmware did not fill may hold
Unfilled(t) ==
    { [ i \in 1..Len(t) |-> ZeroEntry ],
      [ i \in 1..Len(t) |-> IF i = Len(t) THEN ZeroEntry ELSE t[i] ] }

\* The firmware of the machine: the answers of the size and the fill call.
\* num_entries FALSE: the size call reports 0 entries
Fw(size_status, num_entries, fill_status, irt) ==
    [ size_status |-> size_status, num_entries |-> num_entries,
      fill_status |-> fill_status, irt |-> irt ]
FwGood == { Fw(PDC_OK, TRUE, PDC_OK, t) : t \in FirmwareTables }
FwNoFill == { Fw(PDC_OK, TRUE, PDC_BAD_PROC, "Main") }
FwNone == { Fw(PDC_BAD_PROC, FALSE, PDC_BAD_PROC, "Main"), Fw(PDC_OK, FALSE, PDC_OK, "Main") }
Firmware == FwGood \cup FwNoFill \cup FwNone

(***************************************************************************)
(* The hardware: one redirection controller per physical address, with its *)
(* select register, version word and IRdT.  Two controllers are present:   *)
(* A has 2 lines (version 0x01010011), B has 1 line (version 0x02000011).  *)
(***************************************************************************)
Present == { PhysA, PhysB }
VersionWord(p) == IF p = PhysA THEN << 257, 17 >> ELSE << 512, 17 >>
HwLines(p) == IOSAPIC_IRDT_MAX_ENTRY(VersionWord(p)) + 1
\* IRdT as firmware leaves it: every line masked, targets differ per line
HwInit(p) ==
    [ select |-> 0,
      irdt |-> [ r \in UNION { { IOSAPIC_IRDT_ENTRY(k), IOSAPIC_IRDT_ENTRY_HI(k) } :
                               k \in 0..(HwLines(p) - 1) } |->
                   IF r % 2 = 0 THEN << 1, r >> ELSE << r, 0 >> ],
      eoi |-> << >> ]

\* readl(iosapic + IOSAPIC_REG_WINDOW) with the select register as it is
WindowRead(h, p) ==
    IF h.select = IOSAPIC_REG_VERSION THEN VersionWord(p)
    ELSE IF h.select \in DOMAIN h.irdt THEN h.irdt[h.select]
    ELSE << 0, 0 >>
\* writel(val, iosapic + IOSAPIC_REG_WINDOW)
WindowWrite(h, val) ==
    IF h.select \in DOMAIN h.irdt
    THEN [ h EXCEPT !.irdt = [ @ EXCEPT ![h.select] = val ] ]
    ELSE h
\* writel(reg, iosapic + IOSAPIC_REG_SELECT)
SelectWrite(h, reg) == [ h EXCEPT !.select = reg ]

(***************************************************************************)
(* PCI devices.  bus is the chain of bridges above the device, bottom-up,  *)
(* each given by the slot of the bridge device (p->self->devfn); <<>> is   *)
(* the root bus.  pin is the INTERRUPT_PIN byte, line the value pci core   *)
(* put into pcidev->irq, superio whether is_superio_device(pcidev) and     *)
(* sio_irq what superio_fixup_irq(pcidev) returns.                         *)
(***************************************************************************)
PciDev(slot, func, pin, bus, line, superio, sio_irq) ==
    [ slot |-> slot, func |-> func, pin |-> pin, bus |-> bus, line |-> line,
      superio |-> superio, sio_irq |-> sio_irq ]

DevA1 == PciDev(1, 0, 1, << >>, 255, FALSE, -1)
DevS2 == PciDev(2, 1, 1, << >>, 255, FALSE, -1)
DevS3 == PciDev(3, 0, 2, << >>, 255, FALSE, -1)
DevNoPin == PciDev(1, 3, 0, << >>, 255, FALSE, -1)
DevBr == PciDev(5, 0, 1, << 2, 3 >>, 255, FALSE, -1)
DevSioIde == PciDev(2, 0, 1, << >>, 14, TRUE, 14)
DevSioUsb == PciDev(2, 2, 4, << >>, 255, TRUE, 1)
\* devices are referred to by name
Devices == { "A1", "S2", "S3", "NoPin", "Br", "SioIde", "SioUsb" }
pci_dev(d) ==
    CASE d = "A1" -> DevA1
      [] d = "S2" -> DevS2
      [] d = "S3" -> DevS3
      [] d = "NoPin" -> DevNoPin
      [] d = "Br" -> DevBr
      [] d = "SioIde" -> DevSioIde
      [] d = "SioUsb" -> DevSioUsb

\* drivers/pci: pci_swizzle_interrupt_pin(dev, pin)
pci_swizzle_interrupt_pin(dev, pin) == (((pin - 1) + dev.slot) % 4) + 1

(***************************************************************************)
(* The processor interrupt allocator (arch/parisc/kernel/irq.c).           *)
(***************************************************************************)
CPU_IRQ_BASE == 64
CPUs == { 0, 1 }
\* cpu_data[cpu].txn_addr: the processors' HPAs 0xfffa0000 and 0xfffa2000
txn_affinity_addr(cpu, is64) ==
    IF is64 THEN << 65535, 65535, 65530, cpu * 8192 >> ELSE << 0, 0, 65530, cpu * 8192 >>
\* txn_alloc_addr() hands the interrupts to the processors in turn
txn_alloc_addr(irq, is64) == txn_affinity_addr((irq - CPU_IRQ_BASE) % 2, is64)
txn_alloc_data(irq) == irq - CPU_IRQ_BASE

VARIABLES
    CONFIG_64BIT,       \* build: #ifdef CONFIG_64BIT
    CONFIG_SUPERIO,     \* build: #ifdef CONFIG_SUPERIO
    is_pdc_pat,         \* platform: PAT ("modern") or legacy PDC firmware
    pdc,                \* platform: what the firmware answers
    phase,              \* "boot", "run" or "halted" (BUG / panic)
    irt_cell,           \* the IRT; <<>> is the NULL pointer
    irt_num_entry,
    load_ret,           \* what iosapic_load_irt returned; -1 before / if it never returns
    isi_list,           \* the iosapic_info objects, in order of creation
    reg_log,            \* the last call of iosapic_register that returned: [hpa, ret]
    hw,                 \* the controllers' registers
    pci_irq,            \* pcidev->irq of every device
    bind_log,           \* the last call of iosapic_fixup_irq
    bind_hist,          \* history: <<isi, dev>> -> [ret, line] of the first call that returned
    txn_next,           \* the next processor irq txn_alloc_irq hands out
    claimed,            \* cpu_claim_irq: irq -> <<isi, line>>
    find_log,           \* the last call of irt_find_irqline: [hpa, slot, pin, ret, dev]
    iosapic_lock,       \* the spinlock: NULL, or the processor holding it (1 + its number)
    cpu,                \* per processor: the irq_chip callback it is in, and where
    irq_calls,          \* the number of irq_chip callbacks entered so far
    affinity            \* d->affinity where a retarget set it: irq -> processor

platVars == << CONFIG_64BIT, CONFIG_SUPERIO, is_pdc_pat, pdc >>
irtVars == << irt_cell, irt_num_entry, load_ret >>
isiVars == << isi_list, reg_log >>
devVars == << pci_irq, bind_log, bind_hist, txn_next, claimed >>
irqVars == << iosapic_lock, cpu, irq_calls, affinity >>
vars == << platVars, phase, irtVars, isiVars, hw, devVars, find_log, irqVars >>

(***************************************************************************)
(* iosapic_load_irt(cell_num, &irt).  The result is a record: halt (a      *)
(* BUG_ON fired), ret (the count returned) and irt (the value of *irt      *)
(* afterwards).  alloc_ok is whether kmalloc succeeded, mem what the       *)
(* allocated memory holds when firmware does not fill it.                  *)
(***************************************************************************)
NumEntries(fw) == IF fw.num_entries THEN Len(FirmwareIrt(fw.irt)) ELSE 0

\* as iosapic_load_irt, the legacy branch without "if (status != PDC_OK) return 0"
iosapic_load_irt_nocheck(pat, fw, irt, alloc_ok, mem) ==
    LET num_entries == NumEntries(fw)
        halted == [ halt |-> TRUE, ret |-> -1, irt |-> irt ]
        soft == [ halt |-> FALSE, ret |-> 0, irt |-> irt ]
    IN  IF pat
        THEN IF fw.size_status # PDC_OK THEN halted
             ELSE IF num_entries = 0 THEN halted
             ELSE IF ~alloc_ok THEN soft
             ELSE [ halt |-> FALSE, ret |-> num_entries,
                    irt |-> IF fw.fill_status = PDC_OK THEN FirmwareIrt(fw.irt) ELSE mem ]
        ELSE IF irt # << >> THEN soft
             ELSE IF num_entries = 0 THEN halted
             ELSE IF ~alloc_ok THEN soft
             ELSE IF fw.fill_status # PDC_OK THEN halted
             ELSE [ halt |-> FALSE, ret |-> num_entries, irt |-> FirmwareIrt(fw.irt) ]

iosapic_load_irt(pat, fw, irt, alloc_ok, mem) ==
    LET num_entries == NumEntries(fw)
        halted == [ halt |-> TRUE, ret |-> -1, irt |-> irt ]
        soft == [ halt |-> FALSE, ret |-> 0, irt |-> irt ]
    IN  IF pat
        THEN IF fw.size_status # PDC_OK THEN halted          \* BUG_ON(status != PDC_OK)
             ELSE IF num_entries = 0 THEN halted             \* BUG_ON(num_entries == 0)
             ELSE IF ~alloc_ok THEN soft
             ELSE \* WARN_ON(status != PDC_OK): the unfilled table is returned
                  [ halt |-> FALSE, ret |-> num_entries,
                    irt |-> IF fw.fill_status = PDC_OK THEN FirmwareIrt(fw.irt) ELSE mem ]
        ELSE IF irt # << >> THEN soft                        \* if (irt_cell) return 0
             ELSE IF fw.size_status # PDC_OK THEN soft
             ELSE IF num_entries = 0 THEN halted             \* BUG_ON(num_entries == 0)
             ELSE IF ~alloc_ok THEN soft
             ELSE IF fw.fill_status # PDC_OK THEN halted     \* BUG_ON(status != PDC_OK)
             ELSE [ halt |-> FALSE, ret |-> num_entries, irt |-> FirmwareIrt(fw.irt) ]

\* iosapic_init(): irt_num_entry = iosapic_load_irt(cell, &irt_cell); ...
iosapic_init(alloc_ok, mem) ==
    /\ phase = "boot"
    /\   LET r == iosapic_load_irt(is_pdc_pat, pdc, irt_cell, alloc_ok, mem)
         IN  IF r.halt
             THEN /\ phase' = "halted"
                  /\ UNCHANGED irtVars
             ELSE /\ phase' = "run"
                  /\ load_ret' = r.ret
                  /\ irt_num_entry' = r.ret
                  /\ irt_cell' = IF r.ret = 0 THEN << >> ELSE r.irt
    /\ UNCHANGED << platVars, isiVars, hw, devVars, find_log, irqVars >>

(***************************************************************************)
(* irt_find_irqline(isi, slot, intr_pin): the index of the entry, or NULL. *)
(***************************************************************************)
U8(n) == n % 256

\* as FindFrom, without the comparison of src_bus_irq_devno
RECURSIVE FindFrom_nodevno(_, _, _, _, _, _)
FindFrom_nodevno(irt, num, cnt, hpa, irq_devno, is64) ==
    IF cnt > num THEN NULL
    ELSE LET i == irt[cnt]
         IN  IF \/ i.entry_type # IRT_IOSAPIC_TYPE
                \/ i.entry_length # IRT_IOSAPIC_LENGTH
                \/ i.interrupt_type # IRT_VECTORED_INTR
                \/ ~COMPARE_IRTE_ADDR(i, hpa, is64)
             THEN FindFrom_nodevno(irt, num, cnt + 1, hpa, irq_devno, is64)
             ELSE cnt

\* as FindFrom, without the validation of entry_type
RECURSIVE FindFrom_notype(_, _, _, _, _, _)
FindFrom_notype(irt, num, cnt, hpa, irq_devno, is64) ==
    IF cnt > num THEN NULL
    ELSE LET i == irt[cnt]
         IN  IF \/ i.entry_length # IRT_IOSAPIC_LENGTH
                \/ i.interrupt_type # IRT_VECTORED_INTR
                \/ ~COMPARE_IRTE_ADDR(i, hpa, is64)
                \/ i.src_bus_irq_devno % (IRT_IRQ_DEVNO_MASK + 1) # irq_devno
             THEN FindFrom_notype(irt, num, cnt + 1, hpa, irq_devno, is64)
             ELSE cnt

RECURSIVE FindFrom(_, _, _, _, _, _)
FindFrom(irt, num, cnt, hpa, irq_devno, is64) ==
    IF cnt > num THEN NULL
    ELSE LET i == irt[cnt]
         IN  IF i.entry_type # IRT_IOSAPIC_TYPE
                THEN FindFrom(irt, num, cnt + 1, hpa, irq_devno, is64)
             ELSE IF i.entry_length # IRT_IOSAPIC_LENGTH
                THEN FindFrom(irt, num, cnt + 1, hpa, irq_devno, is64)
             ELSE IF i.interrupt_type # IRT_VECTORED_INTR
                THEN FindFrom(irt, num, cnt + 1, hpa, irq_devno, is64)
             ELSE IF ~COMPARE_IRTE_ADDR(i, hpa, is64)
                THEN FindFrom(irt, num, cnt + 1, hpa, irq_devno, is64)
             ELSE IF i.src_bus_irq_devno % (IRT_IRQ_DEVNO_MASK + 1) # irq_devno
                THEN FindFrom(irt, num, cnt + 1, hpa, irq_devno, is64)
             ELSE cnt

irt_find_irqline(irt, num, hpa, slot, intr_pin, is64) ==
    LET irq_devno == U8(Or16(U8(slot * (2 ^ IRT_DEV_SHIFT)), U8(intr_pin - 1), 8))
    IN  FindFrom(irt, num, 1, hpa, irq_devno, is64)

(***************************************************************************)
(* iosapic_xlate_pin(isi, pcidev)                                          *)
(***************************************************************************)
\* as HostSlot, without the walk up: the slot of the bridge next to the device
HostSlot_first(bus, k) == bus[k]

\* while (p->parent->parent) p = p->parent;  then PCI_SLOT(p->self->devfn)
RECURSIVE HostSlot(_, _)
HostSlot(bus, k) == IF k < Len(bus) THEN HostSlot(bus, k + 1) ELSE bus[k]

\* intr_slot and intr_pin as handed to irt_find_irqline
xlate_intr_slot(pcidev) ==
    IF pcidev.bus # << >> THEN HostSlot(pcidev.bus, 1) ELSE pcidev.slot
xlate_intr_pin(pcidev) ==
    IF pcidev.bus # << >> THEN pci_swizzle_interrupt_pin(pcidev, pcidev.pin) ELSE pcidev.pin

iosapic_xlate_pin(irt, num, hpa, pcidev, is64) ==
    IF pcidev.pin = 0 THEN NULL
    ELSE irt_find_irqline(irt, num, hpa, xlate_intr_slot(pcidev), xlate_intr_pin(pcidev), is64)

\* dev (history): the device iosapic_xlate_pin was called for, NoDev when
\* irt_find_irqline was called directly
NoDev == PciDev(0, 0, 0, << >>, 255, FALSE, -1)
\* a call irt_find_irqline(isi, slot, intr_pin) for the controller at p
NoFind == [ hpa |-> << 0, 0, 0, 0 >>, slot |-> 0, pin |-> 0, ret |-> NULL, dev |-> NoDev ]
irt_find_irqline_call(p, slot, intr_pin) ==
    /\ phase = "run"
    /\ find_log' = [ hpa |-> HpaOf(p, CONFIG_64BIT), slot |-> slot, pin |-> intr_pin,
                     dev |-> NoDev,
                     ret |-> irt_find_irqline(irt_cell, irt_num_entry,
                                              HpaOf(p, CONFIG_64BIT), slot, intr_pin,
                                              CONFIG_64BIT) ]
    /\ UNCHANGED << platVars, phase, irtVars, isiVars, hw, devVars, irqVars >>

\* a call iosapic_xlate_pin(isi, pcidev) for the controller at p; find_log
\* keeps the call of irt_find_irqline it ends with, if it makes one
iosapic_xlate_pin_call(p, pcidev) ==
    /\ phase = "run"
    /\ find_log' = IF pcidev.pin = 0 THEN find_log
                   ELSE [ hpa |-> HpaOf(p, CONFIG_64BIT), slot |-> xlate_intr_slot(pcidev),
                          pin |-> xlate_intr_pin(pcidev), dev |-> pcidev,
                          ret |-> iosapic_xlate_pin(irt_cell, irt_num_entry,
                                                    HpaOf(p, CONFIG_64BIT), pcidev,
                                                    CONFIG_64BIT) ]
    /\ UNCHANGED << platVars, phase, irtVars, isiVars, hw, devVars, irqVars >>

(***************************************************************************)
(* iosapic_register(hpa)                                                   *)
(***************************************************************************)
\* the number of entries the search loop looked at before it stopped
\* as RegisterScan, leaving the loop at the first entry whatever its address
RegisterScan_first(irt, num, cnt, hpa, is64) ==
    IF cnt >= num THEN cnt ELSE 0

RECURSIVE RegisterScan(_, _, _, _, _)
RegisterScan(irt, num, cnt, hpa, is64) ==
    IF cnt >= num THEN cnt
    ELSE IF COMPARE_IRTE_ADDR(irt[cnt + 1], hpa, is64) THEN cnt
    ELSE RegisterScan(irt, num, cnt + 1, hpa, is64)

NullPtr == [ base |-> << 0, 0 >>, off |-> 0 ]

\* as NewVector, without "vip->irqline = (unsigned char) cnt"
NewVector_noline(isi, cnt) ==
    [ irqline |-> 0, iosapic |-> isi, irte |-> NULL, txn_irq |-> 0,
      txn_addr |-> << 0, 0, 0, 0 >>, txn_data |-> 0,
      eoi_addr |-> NullPtr, eoi_data |-> << 0, 0 >> ]

\* kcalloc'ed vector_info number cnt of the controller isi
NewVector(isi, cnt) ==
    [ irqline |-> U8(cnt), iosapic |-> isi, irte |-> NULL, txn_irq |-> 0,
      txn_addr |-> << 0, 0, 0, 0 >>, txn_data |-> 0,
      eoi_addr |-> NullPtr, eoi_data |-> << 0, 0 >> ]

iosapic_register(p, kzalloc_ok, kcalloc_ok) ==
    /\ phase = "run"
    /\ LET hpa == HpaOf(p, CONFIG_64BIT)
           cnt == RegisterScan(irt_cell, irt_num_entry, 0, hpa, CONFIG_64BIT)
           me == Len(isi_list) + 1
       IN  IF cnt >= irt_num_entry
           THEN /\ reg_log' = [ hpa |-> hpa, ret |-> NULL ]
                /\ UNCHANGED << phase, isi_list, hw >>
           ELSE   IF ~kzalloc_ok
                  THEN /\ Len(isi_list) < MaxIsi
                       /\ phase' = "halted"                       \* BUG()
                       /\ UNCHANGED << isi_list, reg_log, hw >>
                  ELSE LET version == WindowRead(SelectWrite(hw[p], IOSAPIC_REG_VERSION), p)
                           num_vectors == IOSAPIC_IRDT_MAX_ENTRY(version) + 1
                       IN  /\ Len(isi_list) < MaxIsi
                           /\ hw' = [ hw EXCEPT ![p] = SelectWrite(@, IOSAPIC_REG_VERSION) ]
                           /\ phase' = phase
                           /\ IF ~kcalloc_ok
                              THEN /\ reg_log' = [ hpa |-> hpa,
                                                   ret |-> NULL ]
                                   /\ isi_list' = isi_list
                              ELSE /\ reg_log' = [ hpa |-> hpa,
                                                   ret |-> me ]
                                   /\ isi_list' = Append(isi_list,
                                        [ addr |-> p, isi_hpa |-> hpa,
                                          isi_version |-> version,
                                          isi_num_vectors |-> num_vectors,
                                          isi_vector |->
                                            [ k \in 1..num_vectors |-> NewVector(me, k - 1) ] ])
    /\ UNCHANGED << platVars, irtVars, devVars, find_log, irqVars >>

(***************************************************************************)
(* iosapic_fixup_irq(isi_obj, pcidev).  isi is the index of the controller *)
(* in isi_list or NULL.  txn_alloc_irq(8) answers a fresh irq or -1.       *)
(***************************************************************************)
BindLog(isi, dev, ret, line, alloc) ==
    [ isi |-> isi, dev |-> dev, ret |-> ret, line |-> line, alloc |-> alloc ]

FirstCall(isi, dev, ret, line) ==
    IF << isi, dev >> \in DOMAIN bind_hist THEN bind_hist
    ELSE bind_hist @@ (<< isi, dev >> :> [ ret |-> ret, line |-> line ])

\* as AlreadySetup, the test left out
AlreadySetup_never(vi) == FALSE
\* as AlreadySetup, the test made for the first line only
AlreadySetup_line0(vi) == vi.irte # NULL /\ vi.irqline = 0

\* if (vi->irte) goto out;
AlreadySetup(vi) == vi.irte # NULL

\* as BindVector, without "vi->irte = irte"
BindVector_noirte(vi, irte, txn_irq, addr) ==
    IF txn_irq < 0
    THEN [ vi EXCEPT !.txn_irq = txn_irq ]
    ELSE [ vi EXCEPT !.txn_irq = txn_irq,
                     !.txn_addr = txn_alloc_addr(txn_irq, CONFIG_64BIT),
                     !.txn_data = txn_alloc_data(txn_irq),
                     !.eoi_addr = [ base |-> addr, off |-> IOSAPIC_REG_EOI ],
                     !.eoi_data = cpu_to_le32(U32(txn_alloc_data(txn_irq))) ]

\* as BindVector, without "vi->eoi_data = cpu_to_le32(vi->txn_data)"
BindVector_noeoi(vi, irte, txn_irq, addr) ==
    IF txn_irq < 0
    THEN [ vi EXCEPT !.irte = irte, !.txn_irq = txn_irq ]
    ELSE [ vi EXCEPT !.irte = irte, !.txn_irq = txn_irq,
                     !.txn_addr = txn_alloc_addr(txn_irq, CONFIG_64BIT),
                     !.txn_data = txn_alloc_data(txn_irq),
                     !.eoi_addr = [ base |-> addr, off |-> IOSAPIC_REG_EOI ] ]

\* vi->irte = irte; vi->txn_irq = txn_alloc_irq(8); ... up to cpu_claim_irq
BindVector(vi, irte, txn_irq, addr) ==
    IF txn_irq < 0
    THEN [ vi EXCEPT !.irte = irte, !.txn_irq = txn_irq ]        \* panic()
    ELSE [ vi EXCEPT !.irte = irte, !.txn_irq = txn_irq,
                     !.txn_addr = txn_alloc_addr(txn_irq, CONFIG_64BIT),
                     !.txn_data = txn_alloc_data(txn_irq),
                     !.eoi_addr = [ base |-> addr, off |-> IOSAPIC_REG_EOI ],
                     !.eoi_data = cpu_to_le32(U32(txn_alloc_data(txn_irq))) ]

\* as AllocFailed, the test left out
AllocFailed_never(txn_irq) == FALSE

\* if (vi->txn_irq < 0) panic("I/O sapic: couldn't get TXN IRQ\n");
AllocFailed(txn_irq) == txn_irq < 0

\* vi = isi->isi_vector + isi_line with isi_line >= isi->isi_num_vectors: vi
\* points past the kcalloc'ed array and nothing checks it.  What the build
\* does then is one of: the access faults; vi->irte reads non-zero and the
\* call returns whatever vi->txn_irq reads; vi->irte reads zero and the
\* line is set up in memory past the array (isi_list keeps the array only;
\* the number of interrupts so claimed is capped by MaxBinds).
OutOfArray(isi, dev, isi_line, irq0) ==
    \/ /\ phase' = "halted"
       /\ pci_irq' = [ pci_irq EXCEPT ![dev] = irq0 ]
       /\ UNCHANGED << isi_list, bind_log, bind_hist, txn_next, claimed >>
    \/ \E garbage \in { 0, CPU_IRQ_BASE } :
         /\ pci_irq' = [ pci_irq EXCEPT ![dev] = garbage ]
         /\ bind_log' = BindLog(isi, dev, garbage, isi_line, FALSE)
         /\ bind_hist' = FirstCall(isi, dev, garbage, isi_line)
         /\ UNCHANGED << phase, isi_list, txn_next, claimed >>
    \/ \E txn_irq \in { -1, txn_next } :
         IF AllocFailed(txn_irq)
         THEN /\ phase' = "halted"
              /\ pci_irq' = [ pci_irq EXCEPT ![dev] = irq0 ]
              /\ UNCHANGED << isi_list, bind_log, bind_hist, txn_next, claimed >>
         ELSE /\ Cardinality(DOMAIN claimed) < MaxBinds
              /\ txn_next' = txn_next + 1
              /\ claimed' = claimed @@ (txn_irq :> << isi, isi_line >>)
              /\ pci_irq' = [ pci_irq EXCEPT ![dev] = txn_irq ]
              /\ bind_log' = BindLog(isi, dev, txn_irq, isi_line, TRUE)
              /\ bind_hist' = FirstCall(isi, dev, txn_irq, isi_line)
              /\ UNCHANGED << phase, isi_list >>

iosapic_fixup_irq(isi, dev) ==
    /\ phase = "run"
    /\ \/ << isi, dev >> \in DOMAIN bind_hist
       \/ Cardinality(DOMAIN bind_hist) < MaxBinds
    /\ LET pcidev == pci_dev(dev)
           sio == CONFIG_SUPERIO /\ pcidev.superio
           \* pcidev->irq = superio_fixup_irq(pcidev)
           irq0 == IF sio THEN pcidev.sio_irq ELSE pci_irq[dev]
       IN  IF isi = NULL
           THEN /\ bind_log' = BindLog(isi, dev, -1, -1, FALSE)
                /\ bind_hist' = FirstCall(isi, dev, -1, -1)
                /\ UNCHANGED << phase, isi_list, pci_irq, txn_next, claimed >>
           ELSE IF sio /\ pcidev.func # SUPERIO_USB_FN
           THEN /\ pci_irq' = [ pci_irq EXCEPT ![dev] = irq0 ]
                /\ bind_log' = BindLog(isi, dev, irq0, -1, FALSE)
                /\ bind_hist' = FirstCall(isi, dev, irq0, -1)
                /\ UNCHANGED << phase, isi_list, txn_next, claimed >>
           ELSE LET irte == iosapic_xlate_pin(irt_cell, irt_num_entry,
                                              isi_list[isi].isi_hpa, pcidev, CONFIG_64BIT)
                IN  IF irte = NULL
                    THEN /\ pci_irq' = [ pci_irq EXCEPT ![dev] = irq0 ]
                         /\ bind_log' = BindLog(isi, dev, -1, -1, FALSE)
                         /\ bind_hist' = FirstCall(isi, dev, -1, -1)
                         /\ UNCHANGED << phase, isi_list, txn_next, claimed >>
                    ELSE LET isi_line == irt_cell[irte].dest_iosapic_intin
                             vi == isi_list[isi].isi_vector[isi_line + 1]
                         IN  IF isi_line >= isi_list[isi].isi_num_vectors
                             THEN OutOfArray(isi, dev, isi_line, irq0)
                             ELSE IF AlreadySetup(vi)
                             THEN /\ pci_irq' = [ pci_irq EXCEPT ![dev] = vi.txn_irq ]
                                  /\ bind_log' = BindLog(isi, dev, vi.txn_irq,
                                                         isi_line, FALSE)
                                  /\ bind_hist' = FirstCall(isi, dev, vi.txn_irq, isi_line)
                                  /\ UNCHANGED << phase, isi_list, txn_next, claimed >>
                             ELSE \E txn_irq \in { -1, txn_next } :
                                    LET nvi == BindVector(vi, irte, txn_irq,
                                                          isi_list[isi].addr)
                                    IN  /\ isi_list' = [ isi_list EXCEPT
                                              ![isi].isi_vector[isi_line + 1] = nvi ]
                                        /\ IF AllocFailed(txn_irq)
                                           THEN /\ phase' = "halted"
                                                /\ pci_irq' = [ pci_irq EXCEPT ![dev] = irq0 ]
                                                /\ UNCHANGED << bind_log, bind_hist,
                                                                txn_next, claimed >>
                                           ELSE /\ phase' = phase
                                                /\ txn_next' = txn_next + 1
                                                /\ claimed' = claimed @@
                                                     (txn_irq :> << isi, isi_line >>)
                                                /\ pci_irq' = [ pci_irq EXCEPT
                                                                  ![dev] = txn_irq ]
                                                /\ bind_log' = BindLog(isi, dev,
                                                                  txn_irq, isi_line, TRUE)
                                                /\ bind_hist' = FirstCall(isi, dev, txn_irq, isi_line)
    /\ UNCHANGED << platVars, irtVars, reg_log, hw, find_log, irqVars >>

(***************************************************************************)
(* The irq_chip callbacks, one register access (or lock operation) per     *)
(* step.  cpu[c] says which callback processor c is in, for which line     *)
(* (vector_info) of which controller, which instruction comes next and     *)
(* what its locals d0 and d1 hold; ret is what iosapic_set_affinity_irq    *)
(* last returned, h0 what the line's words were when the callback began.   *)
(*  The interrupt core serialises the callbacks of one      *)
(* interrupt (irq_desc lock), not those of different interrupts.           *)
(***************************************************************************)
Idle == [ op |-> "idle", isi |-> NULL, line |-> 0, pc |-> 0,
          d0 |-> << 0, 0 >>, d1 |-> << 0, 0 >>, ret |-> 0,
          h0 |-> << << 0, 0 >>, << 0, 0 >> >> ]

\* iosapic_read(isp->addr, IOSAPIC_IRDT_ENTRY(idx)) and ..._HI(idx)
iosapic_rd_irt_entry == << "sel_lo", "rd_d0", "sel_hi", "rd_d1" >>
\* as iosapic_wr_irt_entry, without the reads that flush
iosapic_wr_irt_entry_noflush == << "sel_lo", "wr_d0", "sel_hi", "wr_d1" >>

\* iosapic_write, readl to flush, iosapic_write, readl to flush
iosapic_wr_irt_entry == << "sel_lo", "wr_d0", "flush", "sel_hi", "wr_d1", "flush" >>
mask_code ==
    << "lock" >> \o iosapic_rd_irt_entry \o << "enable" >> \o iosapic_wr_irt_entry
                 \o << "unlock" >>
\* no lock is taken
unmask_code == iosapic_wr_irt_entry \o << "eoi" >>
\* as eoi_code, under the lock
eoi_code_locked == << "lock", "eoi", "unlock" >>

eoi_code == << "eoi" >>
set_affinity_code ==
    << "lock" >> \o iosapic_rd_irt_entry \o << "set_d1" >> \o iosapic_wr_irt_entry
                 \o << "unlock" >>
Code(op) ==
    CASE op = "mask" -> mask_code
      [] op = "unmask" -> unmask_code
      [] op = "eoi" -> eoi_code
      [] op = "set_affinity" -> set_affinity_code
      [] OTHER -> << >>

\* as iosapic_set_irt_data_dp0, the polarity left out
iosapic_set_irt_data_dp0_nopo(irt, vi) ==
    LET p == irt[vi.irte]
        el == IF (p.polarity_trigger \div (2 ^ IRT_EL_SHIFT)) % (IRT_EL_MASK + 1)
                   = IRT_LEVEL_TRIG
              THEN IOSAPIC_IRDT_LEVEL_TRIG ELSE << 0, 0 >>
    IN  Or32(el, U32(vi.txn_data))
\* as iosapic_set_irt_data_dp1, the id bits 0x000ff000 left out
iosapic_set_irt_data_dp1_noid(pat, vi) ==
    LET a == << vi.txn_addr[3], vi.txn_addr[4] >>
    IN  IF pat THEN a
        ELSE Shr4(And32(a, << 4080, 0 >>))

\* iosapic_set_irt_data(vi, &dp0, &dp1)
iosapic_set_irt_data_dp0(irt, vi) ==
    LET p == irt[vi.irte]
        po == IF p.polarity_trigger % (IRT_PO_MASK + 1) = IRT_ACTIVE_LO
              THEN IOSAPIC_IRDT_PO_LOW ELSE << 0, 0 >>
        el == IF (p.polarity_trigger \div (2 ^ IRT_EL_SHIFT)) % (IRT_EL_MASK + 1)
                   = IRT_LEVEL_TRIG
              THEN IOSAPIC_IRDT_LEVEL_TRIG ELSE << 0, 0 >>
    IN  Or32(Or32(po, el), U32(vi.txn_data))
iosapic_set_irt_data_dp1(pat, vi) ==
    LET a == << vi.txn_addr[3], vi.txn_addr[4] >>      \* (u32) vi->txn_addr
    IN  IF pat THEN a
        ELSE Or32(Shr4(And32(a, << 4080, 0 >>)),         \* & 0x0ff00000
                  Shl12(And32(a, << 15, 61440 >>)))      \* & 0x000ff000

Instr(c) == Code(cpu[c].op)[cpu[c].pc]
Vi(c) == isi_list[cpu[c].isi].isi_vector[cpu[c].line + 1]
IsiAddr(c) == isi_list[cpu[c].isi].addr
\* the next instruction, or the return of the callback
Advance(c) ==
    IF cpu[c].pc = Len(Code(cpu[c].op)) THEN Idle
    ELSE [ cpu[c] EXCEPT !.pc = @ + 1 ]
\* cpu_claim_irq(irq, &iosapic_interrupt_type, vi) was called for the line
Claimed(isi, line) == \E irq \in DOMAIN claimed : claimed[irq] = << isi, line >>
\* the callback is called on processor c with the chip data cpu_claim_irq stored
Callable(c, isi, line) ==
    /\ phase = "run"
    /\ irq_calls < MaxCalls
    /\ irq_calls' = irq_calls + 1
    /\ cpu[c].op = "idle"
    /\ isi \in 1..Len(isi_list)
    /\ line + 1 \in 1..isi_list[isi].isi_num_vectors
    /\ Claimed(isi, line)
    /\ \A o \in CPUs : cpu[o].op = "idle" \/ cpu[o].isi # isi \/ cpu[o].line # line
\* h0 (history): the line's low and high word in the hardware at the call
Enter(op, isi, line, d0, d1) ==
    [ op |-> op, isi |-> isi, line |-> line, pc |-> 1, d0 |-> d0, d1 |-> d1, ret |-> 0,
      h0 |-> << hw[isi_list[isi].addr].irdt[IOSAPIC_IRDT_ENTRY(line)],
                hw[isi_list[isi].addr].irdt[IOSAPIC_IRDT_ENTRY_HI(line)] >> ]
irqFrame == << platVars, phase, irtVars, isiVars, devVars, find_log, affinity >>

iosapic_mask_irq(c, isi, line) ==
    /\ Callable(c, isi, line)
    /\ cpu' = [ cpu EXCEPT ![c] = Enter("mask", isi, line, << 0, 0 >>, << 0, 0 >>) ]
    /\ UNCHANGED << irqFrame, hw, iosapic_lock >>

iosapic_unmask_irq(c, isi, line) ==
    /\ Callable(c, isi, line)
    /\ LET vi == isi_list[isi].isi_vector[line + 1]
       IN  cpu' = [ cpu EXCEPT ![c] =
                      Enter("unmask", isi, line, iosapic_set_irt_data_dp0(irt_cell, vi),
                            iosapic_set_irt_data_dp1(is_pdc_pat, vi)) ]
    /\ UNCHANGED << irqFrame, hw, iosapic_lock >>

iosapic_eoi_irq(c, isi, line) ==
    /\ Callable(c, isi, line)
    /\ cpu' = [ cpu EXCEPT ![c] = Enter("eoi", isi, line, << 0, 0 >>, << 0, 0 >>) ]
    /\ UNCHANGED << irqFrame, hw, iosapic_lock >>

\* as AffinityRefused, the test left out
AffinityRefused_never(dest_cpu) == FALSE

\* if (dest_cpu < 0) return -1;
AffinityRefused(dest_cpu) == dest_cpu < 0

\* dest_cpu is what cpu_check_affinity(d, dest) answers
iosapic_set_affinity_irq(c, isi, line, dest_cpu) ==
    /\ Callable(c, isi, line)
    /\ IF AffinityRefused(dest_cpu)
       THEN /\ cpu' = [ cpu EXCEPT ![c] = [ Idle EXCEPT !.ret = -1 ] ]
            /\ UNCHANGED << isi_list, affinity >>
       ELSE /\ cpu' = [ cpu EXCEPT ![c] =
                          Enter("set_affinity", isi, line, << 0, 0 >>, << 0, 0 >>) ]
            \* cpumask_copy(d->affinity, cpumask_of(dest_cpu))
            /\ affinity' = [ q \in DOMAIN affinity \cup
                                      { isi_list[isi].isi_vector[line + 1].txn_irq } |->
                                IF q = isi_list[isi].isi_vector[line + 1].txn_irq THEN dest_cpu
                                ELSE affinity[q] ]
            /\ isi_list' = [ isi_list EXCEPT ![isi].isi_vector[line + 1].txn_addr =
                                               txn_affinity_addr(dest_cpu, CONFIG_64BIT) ]
    /\ UNCHANGED << platVars, phase, irtVars, reg_log, devVars, find_log, hw, iosapic_lock >>

spin_lock_irqsave(c) ==
    /\ cpu[c].op # "idle" /\ Instr(c) = "lock"
    /\ iosapic_lock = NULL
    /\ iosapic_lock' = c + 1
    /\ cpu' = [ cpu EXCEPT ![c] = Advance(c) ]
    /\ UNCHANGED << irqFrame, hw, irq_calls >>

spin_unlock_irqrestore(c) ==
    /\ cpu[c].op # "idle" /\ Instr(c) = "unlock"
    /\ iosapic_lock' = NULL
    /\ cpu' = [ cpu EXCEPT ![c] = Advance(c) ]
    /\ UNCHANGED << irqFrame, hw, irq_calls >>

\* writel(reg, iosapic + IOSAPIC_REG_SELECT)
writel_select(c) ==
    /\ cpu[c].op # "idle" /\ Instr(c) \in { "sel_lo", "sel_hi" }
    /\ hw' = [ hw EXCEPT ![IsiAddr(c)] =
                 SelectWrite(@, IF Instr(c) = "sel_lo"
                                THEN IOSAPIC_IRDT_ENTRY(Vi(c).irqline)
                                ELSE IOSAPIC_IRDT_ENTRY_HI(Vi(c).irqline)) ]
    /\ cpu' = [ cpu EXCEPT ![c] = Advance(c) ]
    /\ UNCHANGED << irqFrame, iosapic_lock, irq_calls >>

\* readl(iosapic + IOSAPIC_REG_WINDOW), into d0, into d1 or to flush
readl_window(c) ==
    /\ cpu[c].op # "idle" /\ Instr(c) \in { "rd_d0", "rd_d1", "flush" }
    /\ LET val == WindowRead(hw[IsiAddr(c)], IsiAddr(c))
           nxt == Advance(c)
       IN  cpu' = [ cpu EXCEPT ![c] =
                      IF nxt = Idle THEN Idle
                      ELSE IF Instr(c) = "rd_d0" THEN [ nxt EXCEPT !.d0 = val ]
                      ELSE IF Instr(c) = "rd_d1" THEN [ nxt EXCEPT !.d1 = val ]
                      ELSE nxt ]
    /\ UNCHANGED << irqFrame, hw, iosapic_lock, irq_calls >>

\* writel(val, iosapic + IOSAPIC_REG_WINDOW)
writel_window(c) ==
    /\ cpu[c].op # "idle" /\ Instr(c) \in { "wr_d0", "wr_d1" }
    /\ hw' = [ hw EXCEPT ![IsiAddr(c)] =
                 WindowWrite(@, IF Instr(c) = "wr_d0" THEN cpu[c].d0 ELSE cpu[c].d1) ]
    /\ cpu' = [ cpu EXCEPT ![c] = Advance(c) ]
    /\ UNCHANGED << irqFrame, iosapic_lock, irq_calls >>

\* d0 |= IOSAPIC_IRDT_ENABLE (mask);  iosapic_set_irt_data(vi, &dummy_d0, &d1) (set_affinity)
local_step(c) ==
    /\ cpu[c].op # "idle" /\ Instr(c) \in { "enable", "set_d1" }
    /\ cpu' = [ cpu EXCEPT ![c] =
                  IF Instr(c) = "enable"
                  THEN [ Advance(c) EXCEPT !.d0 = Or32(cpu[c].d0, IOSAPIC_IRDT_ENABLE) ]
                  ELSE [ Advance(c) EXCEPT !.d1 = iosapic_set_irt_data_dp1(is_pdc_pat, Vi(c)) ] ]
    /\ UNCHANGED << irqFrame, hw, iosapic_lock, irq_calls >>

\* iosapic_eoi(vi->eoi_addr, vi->eoi_data): __raw_writel(data, addr)
iosapic_eoi(c) ==
    /\ cpu[c].op # "idle" /\ Instr(c) = "eoi"
    /\ hw' = [ hw EXCEPT ![Vi(c).eoi_addr.base].eoi = Vi(c).eoi_data ]
    /\ cpu' = [ cpu EXCEPT ![c] = Advance(c) ]
    /\ UNCHANGED << irqFrame, iosapic_lock, irq_calls >>

Init ==
    /\ CONFIG_64BIT \in BOOLEAN
    /\ CONFIG_SUPERIO \in BOOLEAN
    /\ is_pdc_pat \in BOOLEAN
    /\ pdc \in Firmware
    /\ phase = "boot"
    /\ irt_cell = << >>
    /\ irt_num_entry = 0
    /\ load_ret = -1
    /\ isi_list = << >>
    /\ reg_log = [ hpa |-> << 0, 0, 0, 0 >>, ret |-> NULL ]
    /\ hw = [ p \in Present |-> HwInit(p) ]
    /\ pci_irq = [ d \in Devices |-> pci_dev(d).line ]
    /\ bind_log = BindLog(NULL, "NoPin", -1, -1, FALSE)
    /\ bind_hist = << >>
    /\ txn_next = CPU_IRQ_BASE + 1
    /\ claimed = << >>
    /\ find_log = NoFind
    /\ iosapic_lock = NULL
    /\ cpu = [ c \in CPUs |-> Idle ]
    /\ irq_calls = 0
    /\ affinity = << >>

Next ==
    \/ \E alloc_ok \in BOOLEAN, mem \in Unfilled(FirmwareIrt(pdc.irt)) : iosapic_init(alloc_ok, mem)
    \/ \E p \in Phys, kzalloc_ok \in BOOLEAN, kcalloc_ok \in BOOLEAN :
         iosapic_register(p, kzalloc_ok, kcalloc_ok)
    \/ \E isi \in 0..Len(isi_list), d \in Devices : iosapic_fixup_irq(isi, d)
    \/ \E p \in Phys, slot \in 0..31, pin \in 1..4 : irt_find_irqline_call(p, slot, pin)
    \/ \E c \in CPUs, isi \in 1..Len(isi_list), line \in 0..1 :
         \/ iosapic_mask_irq(c, isi, line)
         \/ iosapic_unmask_irq(c, isi, line)
         \/ iosapic_eoi_irq(c, isi, line)
         \/ \E dest_cpu \in CPUs \cup { -1 } : iosapic_set_affinity_irq(c, isi, line, dest_cpu)
    \/ \E c \in CPUs :
         \/ spin_lock_irqsave(c)
         \/ spin_unlock_irqrestore(c)
         \/ writel_select(c)
         \/ readl_window(c)
         \/ writel_window(c)
         \/ local_step(c)
         \/ iosapic_eoi(c)

Spec == Init /\ [][Next]_vars

\* The lookup alone: the table is any sequence of up to MaxIrt entries drawn
\* from FindEntries (good and bad tags, device numbers with and without the
\* bit above the mask, addresses in both extensions).
GoodTags == << IRT_IOSAPIC_TYPE, IRT_IOSAPIC_LENGTH, IRT_VECTORED_INTR >>
BadTags == { << 0, IRT_IOSAPIC_LENGTH, IRT_VECTORED_INTR >>,
             << IRT_IOSAPIC_TYPE, 8, IRT_VECTORED_INTR >>,
             << IRT_IOSAPIC_TYPE, IRT_IOSAPIC_LENGTH, 1 >> }
FindEntries ==
    { IrtEntry(GoodTags[1], GoodTags[2], GoodTags[3], 15, dv, 0, a) :
        dv \in { 4, 132, 5 }, a \in { FExt(PhysA), ZExt(PhysA), FExt(PhysB) } }
    \cup { IrtEntry(t[1], t[2], t[3], 15, 4, 0, FExt(PhysA)) : t \in BadTags }
FindTables == UNION { [ 1..n -> FindEntries ] : n \in 0..MaxIrt }

\* pdc is not consulted after the load: the table loaded is irt_cell
InitFind ==
    /\ CONFIG_64BIT \in BOOLEAN
    /\ CONFIG_SUPERIO = FALSE
    /\ is_pdc_pat = TRUE
    /\ pdc = Fw(PDC_OK, TRUE, PDC_OK, "Main")
    /\ phase = "run"
    /\ irt_cell \in FindTables
    /\ irt_num_entry = Len(irt_cell)
    /\ load_ret = irt_num_entry
    /\ isi_list = << >>
    /\ reg_log = [ hpa |-> << 0, 0, 0, 0 >>, ret |-> NULL ]
    /\ hw = [ p \in Present |-> HwInit(p) ]
    /\ pci_irq = [ d \in Devices |-> pci_dev(d).line ]
    /\ bind_log = BindLog(NULL, "NoPin", -1, -1, FALSE)
    /\ bind_hist = << >>
    /\ txn_next = CPU_IRQ_BASE + 1
    /\ claimed = << >>
    /\ find_log = NoFind
    /\ iosapic_lock = NULL
    /\ cpu = [ c \in CPUs |-> Idle ]
    /\ irq_calls = 0
    /\ affinity = << >>

NextFind == \E p \in { PhysA, PhysB }, slot \in 1..2, pin \in 1..2 : irt_find_irqline_call(p, slot, pin)

SpecFind == InitFind /\ [][NextFind]_vars

\* The irq_chip callbacks: one table, controller A, and the devices of its two
\* lines, bound in the order of the bus scan before any interrupt is requested.
InitIrq ==
    /\ Init
    /\ ~CONFIG_SUPERIO
    /\ pdc = Fw(PDC_OK, TRUE, PDC_OK, "Main")

IrqStep(c) ==
    \/ spin_lock_irqsave(c)
    \/ spin_unlock_irqrestore(c)
    \/ writel_select(c)
    \/ readl_window(c)
    \/ writel_window(c)
    \/ local_step(c)
    \/ iosapic_eoi(c)

NextIrq ==
    \/ \E alloc_ok \in BOOLEAN, mem \in Unfilled(FirmwareIrt(pdc.irt)) : iosapic_init(alloc_ok, mem)
    \/ iosapic_register(PhysA, TRUE, TRUE)
    \/ /\ irq_calls = 0 /\ Len(isi_list) = 1
       /\ \E d \in { "A1", "S2" } :
            /\ << 1, d >> \notin DOMAIN bind_hist
            /\ d = "S2" => << 1, "A1" >> \in DOMAIN bind_hist
            /\ iosapic_fixup_irq(1, d)
    \/ \E c \in CPUs, isi \in 1..Len(isi_list), line \in 0..1 :
         \/ iosapic_mask_irq(c, isi, line)
         \/ iosapic_unmask_irq(c, isi, line)
         \/ iosapic_eoi_irq(c, isi, line)
         \/ \E dest_cpu \in CPUs \cup { -1 } : iosapic_set_affinity_irq(c, isi, line, dest_cpu)
    \/ \E c \in CPUs : IrqStep(c)

SpecIrq == InitIrq /\ [][NextIrq]_vars

\* Registration alone: firmware, builds and allocation failures in full.
NextBoot ==
    \/ \E alloc_ok \in BOOLEAN, mem \in Unfilled(FirmwareIrt(pdc.irt)) : iosapic_init(alloc_ok, mem)
    \/ \E p \in Phys, kzalloc_ok \in BOOLEAN, kcalloc_ok \in BOOLEAN :
         iosapic_register(p, kzalloc_ok, kcalloc_ok)

SpecBoot == Init /\ [][NextBoot]_vars

\* Binding: PAT firmware, zeroed memory for the table, and the controllers
\* present register without allocation failures.
InitBind == Init /\ is_pdc_pat

NextBind ==
    \/ \E alloc_ok \in BOOLEAN :
         iosapic_init(alloc_ok, [ i \in 1..Len(FirmwareIrt(pdc.irt)) |-> ZeroEntry ])
    \/ \E p \in Present : iosapic_register(p, TRUE, TRUE)
    \/ \E isi \in 1..Len(isi_list), d \in Devices : iosapic_fixup_irq(isi, d)
    \/ iosapic_fixup_irq(NULL, "A1")

SpecBind == InitBind /\ [][NextBind]_vars

(***************************************************************************)
(* The encoding of a bound line: iosapic_unmask_irq on a line whose        *)
(* routing entry, allocator payload and allocator address are drawn from   *)
(* sets.  The controller at PhysA is registered, its line 0 is bound.      *)
(***************************************************************************)
\* (u32) values of txn_addr, 0xfffa0000 and 0xfffa2000 among them
EncAddrs == { << h, l >> : h \in { 0, 4095, 43690, 65530 }, l \in { 0, 8192, 61440, 65535 } }
\* txn_alloc_data() of the irqs txn_alloc_irq(8) hands out
EncPayloads == { 1, 33, 63 }
EncVector(a, data, is64) ==
    [ NewVector(1, 0) EXCEPT !.irte = 1, !.txn_irq = CPU_IRQ_BASE + data,
                             !.txn_addr = IF is64 THEN FExt(a) ELSE ZExt(a),
                             !.txn_data = data,
                             !.eoi_addr = [ base |-> PhysA, off |-> IOSAPIC_REG_EOI ],
                             !.eoi_data = cpu_to_le32(U32(data)) ]
InitEnc ==
    /\ CONFIG_64BIT \in BOOLEAN
    /\ CONFIG_SUPERIO = FALSE
    /\ is_pdc_pat \in BOOLEAN
    /\ pdc = Fw(PDC_OK, TRUE, PDC_OK, "Main")
    /\ phase = "run"
    /\ \E pt \in 0..15 : irt_cell = << IrtEntry(139, 16, 0, pt, 4, 0, FExt(PhysA)) >>
    /\ irt_num_entry = 1
    /\ load_ret = 1
    /\ \E a \in EncAddrs, data \in EncPayloads :
         /\ isi_list = << [ addr |-> PhysA, isi_hpa |-> HpaOf(PhysA, CONFIG_64BIT),
                            isi_version |-> VersionWord(PhysA),
                            isi_num_vectors |-> HwLines(PhysA),
                            isi_vector |-> [ k \in 1..HwLines(PhysA) |->
                                               IF k = 1 THEN EncVector(a, data, CONFIG_64BIT)
                                               ELSE NewVector(1, k - 1) ] ] >>
         /\ pci_irq = [ d \in Devices |-> IF d = "A1" THEN CPU_IRQ_BASE + data
                                          ELSE pci_dev(d).line ]
         /\ bind_log = BindLog(1, "A1", CPU_IRQ_BASE + data, 0, TRUE)
         /\ bind_hist = (<< 1, "A1" >> :> [ ret |-> CPU_IRQ_BASE + data, line |-> 0 ])
         /\ txn_next = CPU_IRQ_BASE + data + 1
         /\ claimed = (CPU_IRQ_BASE + data :> << 1, 0 >>)
    /\ reg_log = [ hpa |-> HpaOf(PhysA, CONFIG_64BIT), ret |-> 1 ]
    /\ hw = [ p \in Present |-> IF p = PhysA THEN SelectWrite(HwInit(p), IOSAPIC_REG_VERSION)
                                ELSE HwInit(p) ]
    /\ find_log = NoFind
    /\ iosapic_lock = NULL
    /\ cpu = [ c \in CPUs |-> Idle ]
    /\ irq_calls = 0
    /\ affinity = << >>

NextEnc ==
    \E c \in CPUs :
        \/ iosapic_unmask_irq(c, 1, 0)
        \/ writel_select(c)
        \/ writel_window(c)
        \/ readl_window(c)
        \/ iosapic_eoi(c)

SpecEnc == InitEnc /\ [][NextEnc]_vars

(***************************************************************************)
(* Pin translation: iosapic_xlate_pin for devices on the root bus and      *)
(* behind one, two or three bridges.  bus lists the slots of the bridges   *)
(* from the device up; the topmost bridge sits in slot 3, which no device  *)
(* on the root bus has.                                                    *)
(***************************************************************************)
PinRoot == { PciDev(s, 0, p, << >>, 255, FALSE, -1) : s \in { 0, 1, 2, 4, 5 }, p \in 0..4 }
PinBridged ==
    { PciDev(s, 0, p, b, 255, FALSE, -1) :
        s \in 0..5, p \in 0..4, b \in { << 3 >>, << 2, 3 >>, << 1, 2, 3 >> } }
PinDevs == PinRoot \cup PinBridged

InitPin ==
    /\ CONFIG_64BIT \in BOOLEAN
    /\ CONFIG_SUPERIO = FALSE
    /\ is_pdc_pat = TRUE
    /\ \E t \in FirmwareTables :
         /\ pdc = Fw(PDC_OK, TRUE, PDC_OK, t)
         /\ irt_cell = FirmwareIrt(t)
    /\ phase = "run"
    /\ irt_num_entry = Len(irt_cell)
    /\ load_ret = irt_num_entry
    /\ isi_list = << >>
    /\ reg_log = [ hpa |-> << 0, 0, 0, 0 >>, ret |-> NULL ]
    /\ hw = [ p \in Present |-> HwInit(p) ]
    /\ pci_irq = [ d \in Devices |-> pci_dev(d).line ]
    /\ bind_log = BindLog(NULL, "NoPin", -1, -1, FALSE)
    /\ bind_hist = << >>
    /\ txn_next = CPU_IRQ_BASE + 1
    /\ claimed = << >>
    /\ find_log = NoFind
    /\ iosapic_lock = NULL
    /\ cpu = [ c \in CPUs |-> Idle ]
    /\ irq_calls = 0
    /\ affinity = << >>

NextPin == \E p \in { PhysA, PhysB }, pcidev \in PinDevs : iosapic_xlate_pin_call(p, pcidev)

SpecPin == InitPin /\ [][NextPin]_vars

(***************************************************************************)
(* Binding with the table as firmware may hand it over: the input-line     *)
(* number of an entry is any byte, here 0..2, for controllers with 2 lines *)
(* (PhysA) and 1 line (PhysB).                                             *)
(***************************************************************************)
RawEntries ==
    { IrtEntry(IRT_IOSAPIC_TYPE, IRT_IOSAPIC_LENGTH, IRT_VECTORED_INTR, 15, devno, intin,
               FExt(p)) :
        devno \in { 4, 8 }, intin \in 0..2, p \in Present }
RawTables == [ 1..2 -> RawEntries ]

InitRaw ==
    /\ CONFIG_64BIT \in BOOLEAN
    /\ CONFIG_SUPERIO = FALSE
    /\ is_pdc_pat = TRUE
    /\ pdc = Fw(PDC_OK, TRUE, PDC_OK, "Main")
    /\ phase = "run"
    /\ irt_cell \in RawTables
    /\ irt_num_entry = Len(irt_cell)
    /\ load_ret = irt_num_entry
    /\ isi_list = << >>
    /\ reg_log = [ hpa |-> << 0, 0, 0, 0 >>, ret |-> NULL ]
    /\ hw = [ p \in Present |-> HwInit(p) ]
    /\ pci_irq = [ d \in Devices |-> pci_dev(d).line ]
    /\ bind_log = BindLog(NULL, "NoPin", -1, -1, FALSE)
    /\ bind_hist = << >>
    /\ txn_next = CPU_IRQ_BASE + 1
    /\ claimed = << >>
    /\ find_log = NoFind
    /\ iosapic_lock = NULL
    /\ cpu = [ c \in CPUs |-> Idle ]
    /\ irq_calls = 0
    /\ affinity = << >>

NextRaw ==
    \/ \E p \in Present : iosapic_register(p, TRUE, TRUE)
    \/ \E isi \in 1..Len(isi_list), d \in { "A1", "S2" } : iosapic_fixup_irq(isi, d)

SpecRaw == InitRaw /\ [][NextRaw]_vars
(***************************************************************************)
(* Properties of loading and registration (SpecBoot).                      *)
(***************************************************************************)
NoHpa == << 0, 0, 0, 0 >>
\* a call of iosapic_register has returned
Registered == reg_log.hpa # NoHpa
\* the comparison the text of the build makes between an entry and a base address
WidthAwareMatch(e, hpa) ==
    IF CONFIG_64BIT THEN e.dest_iosapic_addr = hpa
    ELSE /\ e.dest_iosapic_addr[1] = 65535 /\ e.dest_iosapic_addr[2] = 65535
         /\ e.dest_iosapic_addr[3] = hpa[3] /\ e.dest_iosapic_addr[4] = hpa[4]
TableEmpty == irt_num_entry = 0 /\ irt_cell = << >>
SizeFails == pdc.size_status # PDC_OK
ZeroEntries == pdc.size_status = PDC_OK /\ ~pdc.num_entries
FillFails == pdc.size_status = PDC_OK /\ pdc.num_entries /\ pdc.fill_status # PDC_OK
LoadHalted == phase = "halted" /\ load_ret = -1

\* C2 (as claimed): with an empty routing table every call of register returns
\* a new controller instance.
C2_EmptyTableRegisters ==
    (phase # "boot" /\ irt_num_entry = 0 /\ Registered) => reg_log.ret # NULL

\* C8 (as claimed): with a non-empty table, register returns none when no
\* entry's destination address equals the base address, and succeeds when
\* some entry's does.
C8_AsClaimed ==
    (irt_num_entry > 0 /\ Registered) =>
        LET some == \E i \in 1..irt_num_entry : irt_cell[i].dest_iosapic_addr = reg_log.hpa
        IN  (some => reg_log.ret # NULL) /\ (~some => reg_log.ret = NULL)

\* C8 (amended): with a non-empty table, a call of register for a base address
\* that no entry matches under the build's comparison returns none and creates
\* no controller instance and no vector array (it touches no register either);
\* for a base address some entry matches it returns a new instance when both
\* allocations succeed, returns none and creates nothing when the vector array
\* cannot be allocated, and halts when the instance cannot be allocated.
C8_Register ==
    [][ \A p \in Phys, kz \in BOOLEAN, kc \in BOOLEAN :
          (iosapic_register(p, kz, kc) /\ irt_num_entry > 0) =>
            LET hpa == HpaOf(p, CONFIG_64BIT)
                some == \E i \in 1..irt_num_entry : WidthAwareMatch(irt_cell[i], hpa)
            IN  /\ ~some => /\ reg_log' = [ hpa |-> hpa, ret |-> NULL ]
                            /\ isi_list' = isi_list /\ hw' = hw /\ phase' = "run"
                /\ (some /\ kz /\ kc) =>
                            /\ reg_log' = [ hpa |-> hpa, ret |-> Len(isi_list) + 1 ]
                            /\ Len(isi_list') = Len(isi_list) + 1
                            /\ isi_list'[Len(isi_list')].isi_hpa = hpa
                            /\ phase' = "run"
                /\ (some /\ kz /\ ~kc) =>
                            /\ reg_log' = [ hpa |-> hpa, ret |-> NULL ]
                            /\ isi_list' = isi_list /\ phase' = "run"
                /\ (some /\ ~kz) => phase' = "halted" /\ isi_list' = isi_list ]_vars

\* C8 witness: with a non-empty table one base address was registered and a
\* later call for a base address no entry names returned none.
C8_Witness ==
    /\ irt_num_entry > 0 /\ Len(isi_list) = 1
    /\ reg_log = [ hpa |-> HpaOf(PhysC, CONFIG_64BIT), ret |-> NULL ]

C10_FillFailureIsFatal ==
    (phase # "boot" /\ FillFails) => (load_ret <= 0 /\ irt_cell = << >>)
(***************************************************************************)
(* Properties of binding (SpecBind).  The routing entry of a device is     *)
(* stated here from the description of the lookup, not with the operators  *)
(* that model the code.                                                    *)
(***************************************************************************)
TagsOk(e) ==
    /\ e.entry_type = IRT_IOSAPIC_TYPE
    /\ e.entry_length = IRT_IOSAPIC_LENGTH
    /\ e.interrupt_type = IRT_VECTORED_INTR
\* the slot and the 0-based pin field the lookup of device d uses
LookupSlot(d) ==
    LET pd == pci_dev(d) IN IF pd.bus = << >> THEN pd.slot ELSE pd.bus[Len(pd.bus)]
LookupPin(d) ==
    LET pd == pci_dev(d) IN IF pd.bus = << >> THEN pd.pin - 1 ELSE (pd.pin + pd.slot - 1) % 4
Routes(hpa, d) ==
    IF pci_dev(d).pin = 0 THEN { }
    ELSE { i \in 1..irt_num_entry :
             /\ TagsOk(irt_cell[i])
             /\ WidthAwareMatch(irt_cell[i], hpa)
             /\ irt_cell[i].src_bus_irq_devno % 128 = LookupSlot(d) * 4 + LookupPin(d) }
\* the first matching entry, NULL when there is none
Route(hpa, d) ==
    IF Routes(hpa, d) = { } THEN NULL
    ELSE CHOOSE i \in Routes(hpa, d) : \A j \in Routes(hpa, d) : i <= j
RouteOf(isi, d) == Route(isi_list[isi].isi_hpa, d)
\* the devices CONFIG_SUPERIO builds hand to superio_fixup_irq
SioTouched(d) == CONFIG_SUPERIO /\ pci_dev(d).superio
\* ... and those for which bind returns the SuperIO interrupt without a lookup
SioBypassed(d) == SioTouched(d) /\ pci_dev(d).func # SUPERIO_USB_FN
Lines(isi) == 1..isi_list[isi].isi_num_vectors
Isis == 1..Len(isi_list)

\* C3: a call of bind for a controller and device for which bind has returned
\* before returns what the first call returned, whatever was bound in between,
\* and changes no field of any VectorState (and does not halt).
C3_BindIdempotent ==
    [][ \A isi \in 0..Len(isi_list), d \in Devices :
          (iosapic_fixup_irq(isi, d) /\ << isi, d >> \in DOMAIN bind_hist) =>
            /\ bind_log'.ret = bind_hist[<< isi, d >>].ret
            /\ bind_log'.isi = isi /\ bind_log'.dev = d
            /\ isi_list' = isi_list
            /\ phase' = "run" ]_vars

\* C3 witness: a pair was bound first, another pair after it, and the last call
\* was for the first pair again and returned the first interrupt.
C3_Witness ==
    \E k1 \in DOMAIN bind_hist, k2 \in DOMAIN bind_hist :
        /\ bind_hist[k1].ret = CPU_IRQ_BASE + 1
        /\ bind_hist[k2].ret = CPU_IRQ_BASE + 2
        /\ bind_log.isi = k1[1] /\ bind_log.dev = k1[2]
        /\ bind_log.ret = CPU_IRQ_BASE + 1

\* what the last call of bind returned is stored as the device's interrupt
\* (a later call that halts in panic() returns nothing)
StoredAsDeviceIrq ==
    (phase = "run" /\ bind_log.ret >= 0) => pci_irq[bind_log.dev] = bind_log.ret

SharedLine(isi, d1, d2) ==
    /\ bind_hist[<< isi, d1 >>].ret >= 0
    /\ bind_hist[<< isi, d1 >>].ret = bind_hist[<< isi, d2 >>].ret
    /\ bind_hist[<< isi, d1 >>].line = irt_cell[RouteOf(isi, d1)].dest_iosapic_intin
    /\ bind_hist[<< isi, d2 >>].line = bind_hist[<< isi, d1 >>].line

\* C4 (as claimed): whenever two devices on the same controller translate to
\* the same routing entry, both bind calls succeed, use the VectorState of the
\* same line and return (and store) the same processor interrupt.
C4_AsClaimed ==
    /\ StoredAsDeviceIrq
    /\ \A isi \in Isis, d1 \in Devices, d2 \in Devices :
         ( /\ d1 # d2
           /\ << isi, d1 >> \in DOMAIN bind_hist /\ << isi, d2 >> \in DOMAIN bind_hist
           /\ RouteOf(isi, d1) # NULL /\ RouteOf(isi, d1) = RouteOf(isi, d2) )
         => SharedLine(isi, d1, d2)

\* C4 (amended): the same, for two devices neither of which is a SuperIO
\* function other than the USB function on a build with CONFIG_SUPERIO (for
\* those bind returns the SuperIO interrupt and looks up no routing entry).
C4_SharedLineConvergence ==
    /\ StoredAsDeviceIrq
    /\ \A isi \in Isis, d1 \in Devices, d2 \in Devices :
         ( /\ d1 # d2
           /\ ~SioBypassed(d1) /\ ~SioBypassed(d2)
           /\ << isi, d1 >> \in DOMAIN bind_hist /\ << isi, d2 >> \in DOMAIN bind_hist
           /\ RouteOf(isi, d1) # NULL /\ RouteOf(isi, d1) = RouteOf(isi, d2) )
         => SharedLine(isi, d1, d2)

\* C4 witness: two devices with the same routing entry are bound on one
\* controller and hold the same interrupt.
C4_Witness ==
    \E isi \in Isis, d1 \in Devices, d2 \in Devices :
        /\ d1 # d2 /\ ~SioBypassed(d1) /\ ~SioBypassed(d2)
        /\ << isi, d1 >> \in DOMAIN bind_hist /\ << isi, d2 >> \in DOMAIN bind_hist
        /\ RouteOf(isi, d1) # NULL /\ RouteOf(isi, d1) = RouteOf(isi, d2)
        /\ pci_irq[d1] = pci_irq[d2] /\ pci_irq[d1] > CPU_IRQ_BASE

\* C5: the routing entry of a VectorState, once set, never changes; it is set
\* only by a call of bind, to the entry that call's device resolves to, and
\* that entry carries the line's number.
C5_FirstBindingWins ==
    [][ \A isi \in Isis : \A k \in Lines(isi) :
          LET old == isi_list[isi].isi_vector[k].irte
              new == isi_list'[isi].isi_vector[k].irte
          IN  /\ old # NULL => new = old
              /\ (old = NULL /\ new # NULL) =>
                   /\ irt_cell[new].dest_iosapic_intin = k - 1
                   /\ \E d \in Devices : /\ iosapic_fixup_irq(isi, d)
                                         /\ new = RouteOf(isi, d) ]_vars

\* C5 witness: a line is bound to one entry and the last call of bind was for
\* a device that resolves to another entry with the same line number.
C5_Witness ==
    \E isi \in Isis : \E k \in Lines(isi) :
        LET irte == isi_list[isi].isi_vector[k].irte
            r == RouteOf(isi, bind_log.dev)
        IN  /\ irte # NULL /\ bind_log.isi = isi /\ bind_log.ret >= 0
            /\ r # NULL /\ r # irte
            /\ irt_cell[r].dest_iosapic_intin = k - 1
            /\ bind_log.line = k - 1

Unchanged_by_bind ==
    /\ isi_list' = isi_list /\ txn_next' = txn_next /\ claimed' = claimed
    /\ pci_irq' = pci_irq /\ phase' = "run"

\* C7 (as claimed): when the device's pin translates to no routing entry, bind
\* returns a failure without halting and changes nothing: no VectorState, no
\* allocation, no registration, and the device's interrupt is not overwritten.
C7_AsClaimed ==
    [][ \A isi \in Isis, d \in Devices :
          (iosapic_fixup_irq(isi, d) /\ RouteOf(isi, d) = NULL) =>
            /\ bind_log' = BindLog(isi, d, -1, -1, FALSE)
            /\ Unchanged_by_bind ]_vars

\* C7 (amended): the same for a device that is not a SuperIO function on a
\* build with CONFIG_SUPERIO (for those superio_fixup_irq's result is stored
\* as the device's interrupt before the lookup).
C7_NoRouteChangesNothing ==
    [][ \A isi \in Isis, d \in Devices :
          (iosapic_fixup_irq(isi, d) /\ RouteOf(isi, d) = NULL /\ ~SioTouched(d)) =>
            /\ bind_log' = BindLog(isi, d, -1, -1, FALSE)
            /\ Unchanged_by_bind ]_vars

\* C7 witness: a device is bound on a controller and the last call, for a
\* device with a pin but no routing entry there, returned the failure.
C7_Witness ==
    /\ bind_log.isi # NULL /\ bind_log.ret = -1 /\ pci_dev(bind_log.dev).pin # 0
    /\ ~SioTouched(bind_log.dev)
    /\ RouteOf(bind_log.isi, bind_log.dev) = NULL
    /\ \E d \in Devices : /\ << bind_log.isi, d >> \in DOMAIN bind_hist
                          /\ bind_hist[<< bind_log.isi, d >>].ret > CPU_IRQ_BASE
(***************************************************************************)
(* Properties of the lookup (SpecFind).                                    *)
(***************************************************************************)
Found == find_log # NoFind
\* the low seven bits of the entry's device number are those of the request
DevnoMatch(e) == e.src_bus_irq_devno % 128 = find_log.slot * 4 + (find_log.pin - 1)
EqualMatches ==
    { i \in 1..irt_num_entry : /\ TagsOk(irt_cell[i])
                               /\ irt_cell[i].dest_iosapic_addr = find_log.hpa
                               /\ DevnoMatch(irt_cell[i]) }
WidthAwareMatches ==
    { i \in 1..irt_num_entry : /\ TagsOk(irt_cell[i])
                               /\ WidthAwareMatch(irt_cell[i], find_log.hpa)
                               /\ DevnoMatch(irt_cell[i]) }
FirstOf(M) ==
    /\ find_log.ret # NULL <=> M # { }
    /\ find_log.ret # NULL => (find_log.ret \in M /\ \A j \in M : find_log.ret <= j)

\* C6 (as claimed): find returns an entry iff the table holds an entry with the
\* expected tags whose destination address equals the controller address and
\* whose device-number field encodes the requested slot and pin; it returns
\* the first such entry.
C6_AsClaimed == Found => FirstOf(EqualMatches)

\* C6 (amended): the same with the address compared as the build compares it:
\* equal on a 64-bit build, equal to the controller address with the upper 32
\* bits all set on a 32-bit build.
C6_FindFirstMatch ==
    Found => /\ FirstOf(WidthAwareMatches)
             /\ find_log.ret # NULL => TagsOk(irt_cell[find_log.ret])

\* C6 witness: the entry returned is the second of the table, after an entry
\* that differs from it in a tag only and before another match.
C6_Witness ==
    /\ find_log.ret = 2 /\ irt_num_entry = 3
    /\ ~TagsOk(irt_cell[1]) /\ DevnoMatch(irt_cell[1])
    /\ WidthAwareMatch(irt_cell[1], find_log.hpa)
    /\ 3 \in WidthAwareMatches

(***************************************************************************)
(* Properties of the irq_chip callbacks (SpecIrq).                         *)
(***************************************************************************)
IsAccess(instr) == instr \in { "sel_lo", "sel_hi", "rd_d0", "rd_d1", "wr_d0", "wr_d1", "flush" }
\* processor c has made the first select/window access of a mask, unmask or
\* retarget operation and not yet the last
InRegion(c) ==
    /\ cpu[c].op \in { "mask", "unmask", "set_affinity" }
    /\ \E i \in 1..(cpu[c].pc - 1) : IsAccess(Code(cpu[c].op)[i])
    /\ \E j \in cpu[c].pc..Len(Code(cpu[c].op)) : IsAccess(Code(cpu[c].op)[j])

\* C1 (as claimed): at most one processor is between the first and the last
\* register access of a mask, unmask or retarget operation.
C1_MutualExclusion ==
    \A c1 \in CPUs, c2 \in CPUs : (InRegion(c1) /\ InRegion(c2)) => c1 = c2
(***************************************************************************)
(* Properties of binding, continued (SpecBind).                            *)
(***************************************************************************)
\* the step stores a refusal of txn_alloc_irq in a vector of controller isi
Refused(isi) ==
    \E k \in Lines(isi) : /\ isi_list[isi].isi_vector[k].txn_irq >= 0
                          /\ isi_list'[isi].isi_vector[k].txn_irq < 0

\* C11: when txn_alloc_irq refuses, bind halts: the call does not return
\* (nothing is logged as returned, and nothing runs afterwards), the device's
\* interrupt is not the negative value, and nothing is claimed for the line.
C11_AllocRefusalIsFatal ==
    [][ /\ \A isi \in Isis, d \in Devices :
             (iosapic_fixup_irq(isi, d) /\ Refused(isi)) =>
               /\ phase' = "halted"
               /\ bind_log' = bind_log /\ bind_hist' = bind_hist
               /\ pci_irq'[d] >= 0
               /\ claimed' = claimed /\ txn_next' = txn_next
        /\ phase = "halted" => UNCHANGED vars ]_vars

\* C11 witness: the driver halted with a refusal stored in a vector, after
\* another line had been bound.
C11_Witness ==
    /\ phase = "halted" /\ claimed # << >>
    /\ \E isi \in Isis : \E k \in Lines(isi) : isi_list[isi].isi_vector[k].txn_irq < 0
(***************************************************************************)
(* Properties of the irq_chip callbacks, continued (SpecIrq).              *)
(***************************************************************************)
Irdt(c) == hw[IsiAddr(c)].irdt
LoReg(c) == IOSAPIC_IRDT_ENTRY(cpu[c].line)
HiReg(c) == IOSAPIC_IRDT_ENTRY_HI(cpu[c].line)
\* x with bit 16 set
WithBit16(x) == << x[1] + (IF x[1] % 2 = 1 THEN 0 ELSE 1), x[2] >>
\* the step changes no redirection word except those of processor c's line
OnlyOwnWords(c) ==
    \A p \in Present : \A r \in DOMAIN hw[p].irdt :
        (p # IsiAddr(c) \/ r \notin { LoReg(c), HiReg(c) }) => hw'[p].irdt[r] = hw[p].irdt[r]

\* C12 (as claimed): when mask completes the line's hardware low word is its
\* value at the call with bit 16 set and its high word is the value at the
\* call; no write of mask changes another line's words.
C12_MaskFrame ==
    [][ \A c \in CPUs : cpu[c].op = "mask" =>
          /\ writel_window(c) => OnlyOwnWords(c)
          /\ spin_unlock_irqrestore(c) =>
               /\ Irdt(c)[LoReg(c)] = WithBit16(cpu[c].h0[1])
               /\ Irdt(c)[HiReg(c)] = cpu[c].h0[2] ]_vars
\* the register a window write of processor c is meant for
OwnReg(c) == IF Instr(c) = "wr_d0" THEN LoReg(c) ELSE HiReg(c)
\* the word unmask has to write there
FreshWord(c) ==
    IF Instr(c) = "wr_d0" THEN iosapic_set_irt_data_dp0(irt_cell, Vi(c))
    ELSE iosapic_set_irt_data_dp1(is_pdc_pat, Vi(c))
\* both words have been written: no window write is left in the callback
WordsWritten(c) ==
    \A j \in cpu[c].pc..Len(Code(cpu[c].op)) : Code(cpu[c].op)[j] \notin { "wr_d0", "wr_d1" }

\* C13 (as claimed): every window write of unmask puts the freshly computed
\* word into the line's own redirection register (and changes no other);
\* unmask returns only by the acknowledge write, which comes after both word
\* writes, is the only one of the execution and writes the stored acknowledge
\* data to the stored acknowledge address.
C13_UnmaskThenAck ==
    [][ \A c \in CPUs : cpu[c].op = "unmask" =>
          /\ writel_window(c) =>
               /\ hw'[IsiAddr(c)].irdt[OwnReg(c)] = FreshWord(c)
               /\ OnlyOwnWords(c)
          /\ iosapic_eoi(c) =>
               /\ WordsWritten(c)
               /\ hw'[Vi(c).eoi_addr.base].eoi = Vi(c).eoi_data
               /\ Vi(c).eoi_addr = [ base |-> IsiAddr(c), off |-> IOSAPIC_REG_EOI ]
               /\ cpu'[c] = Idle
          /\ cpu'[c].op = "idle" => iosapic_eoi(c) ]_vars
\* C14 (as claimed): a retarget stores the new processor's address as the
\* line's target; the low word it writes back is the line's hardware low word
\* at the call, the high word it writes is the encoding of that target, and
\* both go to the line's own registers (no other word changes).
C14_RetargetFrame ==
    [][ \A c \in CPUs :
          /\ \A isi \in Isis, line \in 0..1, dest_cpu \in CPUs :
               iosapic_set_affinity_irq(c, isi, line, dest_cpu) =>
                 isi_list'[isi].isi_vector[line + 1].txn_addr =
                   txn_affinity_addr(dest_cpu, CONFIG_64BIT)
          /\ (cpu[c].op = "set_affinity" /\ writel_window(c)) =>
               /\ OnlyOwnWords(c)
               /\ Instr(c) = "wr_d0" => hw'[IsiAddr(c)].irdt[LoReg(c)] = cpu[c].h0[1]
               /\ Instr(c) = "wr_d1" => hw'[IsiAddr(c)].irdt[HiReg(c)] = FreshWord(c) ]_vars
\* C15: every step of an acknowledge callback is the one write of the stored
\* acknowledge data to the stored acknowledge address; it leaves the lock, the
\* select registers and the redirection words as they are, whatever the line's
\* mask bit and whatever the other processor is doing.
C15_AckIsLockFree ==
    [][ \A c \in CPUs : (cpu[c].op = "eoi" /\ cpu'[c] # cpu[c]) =>
          /\ iosapic_eoi(c)
          /\ cpu'[c] = Idle
          /\ iosapic_lock' = iosapic_lock
          /\ hw'[Vi(c).eoi_addr.base].eoi = Vi(c).eoi_data
          /\ Vi(c).eoi_addr = [ base |-> IsiAddr(c), off |-> IOSAPIC_REG_EOI ]
          /\ \A p \in Present : /\ hw'[p].select = hw[p].select
                                /\ hw'[p].irdt = hw[p].irdt ]_vars

\* C15 witness: the acknowledge of a masked line has been written while the
\* other processor holds the lock between the register accesses of a mask.
C15_Witness ==
    \E c \in CPUs, o \in CPUs :
        /\ cpu[c] = Idle /\ irq_calls = MaxCalls
        /\ cpu[o].op = "mask" /\ iosapic_lock = o + 1 /\ InRegion(o)
        /\ hw[IsiAddr(o)].eoi # << >>
        /\ hw[IsiAddr(o)].eoi = isi_list[cpu[o].isi].isi_vector[2 - cpu[o].line].eoi_data
        /\ hw[IsiAddr(o)].irdt[IOSAPIC_IRDT_ENTRY(1 - cpu[o].line)][1] % 2 = 1
IsRegWrite(instr) == instr \in { "sel_lo", "sel_hi", "wr_d0", "wr_d1", "eoi" }
\* the register access the callback of processor c made last ("none": none yet)
PrevAccess(c) ==
    LET S == { i \in 1..(cpu[c].pc - 1) :
                 IsAccess(Code(cpu[c].op)[i]) \/ Code(cpu[c].op)[i] = "eoi" }
    IN  IF S = { } THEN "none"
        ELSE Code(cpu[c].op)[CHOOSE i \in S : \A j \in S : j <= i]
\* processor c executes a register write of a mask, unmask or retarget
WritesRegister(c) ==
    /\ cpu[c].op \in { "mask", "unmask", "set_affinity" }
    /\ cpu'[c] # cpu[c]
    /\ IsRegWrite(Instr(c))

\* C16 (as claimed): in the accesses of one mask, unmask or retarget no
\* register write follows a register write without a window read in between.
C16_AsClaimed ==
    [][ \A c \in CPUs : WritesRegister(c) => ~IsRegWrite(PrevAccess(c)) ]_vars

\* C16 (amended): in the accesses of one mask, unmask or retarget every write
\* of the window register is followed directly by a read of the window, so no
\* register write follows a window write without that read; the select write
\* that addresses a window write comes directly before it, with no read in
\* between.
C16_WindowWriteThenRead ==
    [][ \A c \in CPUs : WritesRegister(c) =>
          /\ PrevAccess(c) \notin { "wr_d0", "wr_d1" }
          /\ Instr(c) \in { "wr_d0", "wr_d1" } =>
               /\ PrevAccess(c) \in { "sel_lo", "sel_hi" }
               /\ cpu'[c].op = cpu[c].op /\ Code(cpu[c].op)[cpu'[c].pc] = "flush" ]_vars

\* C16 witness: an unmask has written its low word and read the window, and
\* writes the select register next.
C16_Witness ==
    \E c \in CPUs : /\ cpu[c].op = "unmask" /\ Instr(c) = "sel_hi"
                    /\ PrevAccess(c) = "flush"
                    /\ hw[IsiAddr(c)].irdt[LoReg(c)] = cpu[c].d0

(***************************************************************************)
(* The encoding, stated on the bits of the words.  A word is << high half, *)
(* low half >>; the payload is below 2^13.                                 *)
(***************************************************************************)
Unmasking(c) == cpu[c].op = "unmask"
ActiveLow(e) == e.polarity_trigger % 4 = 3
LevelTriggered(e) == (e.polarity_trigger \div 4) % 4 = 3
RefLow(e, vi) ==
    << 0, vi.txn_data + (IF ActiveLow(e) THEN 8192 ELSE 0)
                      + (IF LevelTriggered(e) THEN 32768 ELSE 0) >>
\* bits 12..19 of the address go to bits 24..31, bits 20..27 to bits 16..23
RefHighLegacy(a) ==
    << ((a[1] % 16) * 16 + (a[2] \div 4096)) * 256 + ((a[1] \div 16) % 256), 0 >>
RefHigh(vi) ==
    LET a == << vi.txn_addr[3], vi.txn_addr[4] >>
    IN  IF is_pdc_pat THEN a ELSE RefHighLegacy(a)

\* C17: the words iosapic_unmask_irq computes are the reference encoding:
\* the low word is the payload with bit 13 set exactly for an active-low
\* entry and bit 15 set exactly for a level-triggered entry, bit 16 clear;
\* the high word is the 32-bit allocator address under PAT firmware and
\* the repacked address otherwise.
C17_ReferenceEncoding ==
    \A c \in CPUs :
        Unmasking(c) =>
            /\ cpu[c].d0 = RefLow(irt_cell[Vi(c).irte], Vi(c))
            /\ cpu[c].d0[1] % 2 = 0
            /\ cpu[c].d1 = RefHigh(Vi(c))
\* an active-low level-triggered line and an active-high edge-triggered line
\* under legacy firmware with id and eid bits in the address
C17_Witness ==
    \E c \in CPUs :
        /\ Unmasking(c) /\ ~is_pdc_pat
        /\ ActiveLow(irt_cell[1]) /\ LevelTriggered(irt_cell[1])
        /\ cpu[c].d0 = << 0, 40960 + 33 >>
        /\ Vi(c).txn_addr[3] = 65530 /\ Vi(c).txn_addr[4] = 8192
        /\ cpu[c].d1 = << 41727, 0 >>

(***************************************************************************)
(* The legacy repacking and its inverse                                    *)
(***************************************************************************)
\* the inverse unpacking: bits 0x00ff0000 of the high word shifted left 4,
\* bits 0xff000000 shifted right 12
Unpack(w) == << (w[1] % 256) * 16 + ((w[1] \div 256) \div 16), ((w[1] \div 256) % 16) * 4096 >>
\* a & 0x0ffff000
IdEidBits(a) == << a[1] % 4096, (a[2] \div 4096) * 4096 >>
RawAddr(c) == << Vi(c).txn_addr[3], Vi(c).txn_addr[4] >>
LegacyUnmask(c) == Unmasking(c) /\ ~is_pdc_pat

\* C18 as stated: unpacking the packed high word reproduces the raw 32-bit
\* address, for every address.
C18_AsClaimed == \A c \in CPUs : LegacyUnmask(c) => Unpack(cpu[c].d1) = RawAddr(c)

\* C18: unpacking the packed high word reproduces the bits 0x0ffff000 of the
\* raw address and nothing else; it reproduces the address exactly when the
\* address has no bit outside 0x0ffff000.
C18_RoundTripKeepsIdEid ==
    \A c \in CPUs :
        LegacyUnmask(c) =>
            /\ Unpack(cpu[c].d1) = IdEidBits(RawAddr(c))
            /\ Unpack(cpu[c].d1) = RawAddr(c) <=> RawAddr(c) = IdEidBits(RawAddr(c))
\* 0xfffa0000 packs to 0xa0ff0000, which unpacks to 0x0ffa0000
C18_Witness ==
    \E c \in CPUs :
        /\ LegacyUnmask(c)
        /\ RawAddr(c) = << 65530, 0 >>
        /\ cpu[c].d1 = << 41215, 0 >>
        /\ Unpack(cpu[c].d1) = << 4090, 0 >>

(***************************************************************************)
(* Pin translation (SpecPin)                                               *)
(***************************************************************************)
OnRootBus(pd) == pd.bus = << >>
TopmostBridge(pd) == pd.bus[Len(pd.bus)]
\* the slot and the pin field (0..3) of the lookup, as described
RefSlot(pd) == IF OnRootBus(pd) THEN pd.slot ELSE TopmostBridge(pd)
RefPinField(pd) == IF OnRootBus(pd) THEN pd.pin - 1 ELSE (pd.pin + pd.slot - 1) % 4

\* C19: for a device with pin 1..4 the lookup uses, on the root bus, the
\* device's slot and pin field pin - 1; behind bridges, the slot of the
\* topmost bridge and pin field (pin + device number - 1) mod 4, skewed once
\* whatever the depth.  The lookup compares (slot << 2) | pin field.
C19_PinTranslation ==
    find_log.dev.pin \in 1..4 =>
        /\ find_log.slot = RefSlot(find_log.dev)
        /\ find_log.pin - 1 = RefPinField(find_log.dev)
        /\ find_log.ret # NULL =>
             irt_cell[find_log.ret].src_bus_irq_devno % 128
                 = RefSlot(find_log.dev) * 4 + RefPinField(find_log.dev)
\* the device in slot 5 with INTA behind two bridges, the topmost in slot 3:
\* the lookup is for slot 3 INTB and finds that entry
C19_Witness ==
    /\ find_log.dev = DevBr
    /\ find_log.slot = 3 /\ find_log.pin = 2
    /\ find_log.ret = 4
    /\ irt_cell[4].src_bus_irq_devno = 13

(***************************************************************************)
(* The controller instance register creates (SpecBoot)                     *)
(***************************************************************************)
\* bits 0x00ff0000 of a word << high half, low half >>, shifted down
MaxEntryField(ver) == ver[1] - 256 * (ver[1] \div 256)
LineCount(isi) == isi_list[isi].isi_num_vectors

\* C20: after a successful register the controller's line count is the
\* max-entry field of the version word its hardware answers, plus one; its
\* vector array has exactly that many elements; element k holds line index k,
\* a back-reference to this controller and no routing entry, for every k in
\* 0..line count - 1.
C20_FreshController ==
    /\ reg_log.ret # NULL => reg_log.ret = Len(isi_list)
    /\ \A isi \in Isis :
         /\ isi_list[isi].isi_version = VersionWord(isi_list[isi].addr)
         /\ LineCount(isi) = MaxEntryField(isi_list[isi].isi_version) + 1
         /\ DOMAIN isi_list[isi].isi_vector = 1..LineCount(isi)
         /\ \A k \in 0..(LineCount(isi) - 1) :
              /\ isi_list[isi].isi_vector[k + 1].irqline = k
              /\ isi_list[isi].isi_vector[k + 1].iosapic = isi
              /\ isi_list[isi].isi_vector[k + 1].irte = NULL
\* the controller with version word 0x01010011 registered: two lines
C20_Witness ==
    /\ reg_log.ret = 1 /\ Len(isi_list) = 1
    /\ isi_list[1].addr = PhysA
    /\ isi_list[1].isi_version = << 257, 17 >>
    /\ LineCount(1) = 2
    /\ isi_list[1].isi_vector[2].irqline = 1

(***************************************************************************)
(* Properties of the irq_chip callbacks, continued (SpecIrq).              *)
(***************************************************************************)
\* the register index the callback of processor c wrote last to the select
\* register (it has written one before every window access)
SelReg(c) ==
    LET S == { i \in 1..(cpu[c].pc - 1) : Code(cpu[c].op)[i] \in { "sel_lo", "sel_hi" } }
        last == CHOOSE i \in S : \A j \in S : j <= i
    IN  IF Code(cpu[c].op)[last] = "sel_lo" THEN LoReg(c) ELSE HiReg(c)

\* C21 (as claimed): every read or write of the window register by a mask,
\* unmask or retarget finds in the select register the index that operation
\* itself wrote there last, whatever the other processor does on another line.
C21_NoTornAccess ==
    [][ \A c \in CPUs : (readl_window(c) \/ writel_window(c)) =>
          hw[IsiAddr(c)].select = SelReg(c) ]_vars

(***************************************************************************)
(* Properties of binding a raw table (SpecRaw)                             *)
(***************************************************************************)
\* C22 (as claimed): the line bind resolved for a device, and every line it
\* claimed an interrupt for, is below the controller's line count: bind reads
\* and writes no vector outside the controller's array.
C22_LineInBounds ==
    /\ bind_log.line >= 0 => bind_log.line < LineCount(bind_log.isi)
    /\ \A irq \in DOMAIN claimed : claimed[irq][2] < LineCount(claimed[irq][1])

(***************************************************************************)
(* Properties of the irq_chip callbacks on bound lines (SpecIrq)           *)
(***************************************************************************)
\* the processor interrupt cpu_claim_irq registered the line with
IrqOf(isi, line) == CHOOSE irq \in DOMAIN claimed : claimed[irq] = << isi, line >>
\* the little-endian image of a payload below 256: its byte moves to the top
LeImage(data) == << data * 256, 0 >>
ProcessorAddrs == { << IF CONFIG_64BIT THEN 65535 ELSE 0, IF CONFIG_64BIT THEN 65535 ELSE 0,
                       65530, p * 8192 >> : p \in CPUs }
\* every field bind stores for the line is stored
FullyBound(isi, line) ==
    LET vi == isi_list[isi].isi_vector[line + 1]
        irq == IrqOf(isi, line)
    IN  /\ vi.irte # NULL
        /\ vi.irte \in 1..irt_num_entry
        /\ irt_cell[vi.irte].dest_iosapic_intin = line
        /\ vi.txn_irq = irq /\ irq > CPU_IRQ_BASE
        /\ vi.txn_data = irq - CPU_IRQ_BASE
        /\ vi.txn_addr \in ProcessorAddrs
        /\ vi.eoi_addr = [ base |-> isi_list[isi].addr, off |-> IOSAPIC_REG_EOI ]
        /\ vi.eoi_data = LeImage(irq - CPU_IRQ_BASE)

Bound(isi, k) == isi_list[isi].isi_vector[k].irte # NULL
\* the step is a call of txn_alloc_irq that handed out an interrupt
Allocates == txn_next' # txn_next

\* C24: over any sequence of binds txn_alloc_irq is called at most once for a
\* controller and line: a call that allocates is for a line not bound before
\* and binds only that line; the processor interrupt of a bound line never
\* changes; with the allocator handing out a fresh interrupt every time, two
\* distinct bound lines never hold the same processor interrupt, and no two
\* claimed interrupts belong to the same line.
C24_OneIrqPerLine ==
    /\ [](/\ \A i1 \in Isis, i2 \in Isis :
               \A k1 \in Lines(i1), k2 \in Lines(i2) :
                  (Bound(i1, k1) /\ Bound(i2, k2) /\ << i1, k1 >> # << i2, k2 >>) =>
                     isi_list[i1].isi_vector[k1].txn_irq # isi_list[i2].isi_vector[k2].txn_irq
          /\ \A q1 \in DOMAIN claimed, q2 \in DOMAIN claimed :
               claimed[q1] = claimed[q2] => q1 = q2
          /\ DOMAIN claimed = (CPU_IRQ_BASE + 1)..(txn_next - 1))
    /\ [][ /\ \A isi \in Isis : \A k \in Lines(isi) :
                Bound(isi, k) => isi_list'[isi].isi_vector[k] = isi_list[isi].isi_vector[k]
           /\ Allocates =>
                \E isi \in Isis : \E k \in Lines(isi) :
                    /\ ~Bound(isi, k) /\ Bound(isi, k)'
                    /\ isi_list'[isi].isi_vector[k].txn_irq = txn_next
                    /\ txn_next' = txn_next + 1
                    /\ claimed' = claimed @@ (txn_next :> << isi, k - 1 >>)
                    /\ \A i2 \in Isis : \A k2 \in Lines(i2) :
                         << i2, k2 >> # << isi, k >> =>
                            isi_list'[i2].isi_vector[k2] = isi_list[i2].isi_vector[k2] ]_vars
\* two lines hold different interrupts and the last bind found its line
\* already set up: it returned that line's interrupt without allocating
C24_Witness ==
    /\ phase = "run" /\ Len(isi_list) = 1 /\ LineCount(1) = 2
    /\ Bound(1, 1) /\ Bound(1, 2)
    /\ isi_list[1].isi_vector[1].txn_irq # isi_list[1].isi_vector[2].txn_irq
    /\ ~bind_log.alloc /\ bind_log.line >= 0
    /\ bind_log.ret = isi_list[1].isi_vector[bind_log.line + 1].txn_irq
    /\ Cardinality(DOMAIN claimed) = 2

(***************************************************************************)
(* Properties of the irq_chip callbacks: the refused retarget (SpecIrq)    *)
(***************************************************************************)
\* the callback on processor c has returned an error and c runs nothing
ReturnedError(c) == cpu[c].op = "idle" /\ cpu[c].ret = -1

\* C25: a retarget whose affinity check answers a negative value returns an
\* error at once and changes nothing: the line's stored target address (and
\* every other field of every line), the affinity masks, the redirection
\* words and select registers of the hardware are as before, and the lock is
\* not taken, whoever holds it.
C25_RefusedRetarget ==
    [][ \A c \in CPUs, isi \in 1..Len(isi_list), line \in 0..1 :
          iosapic_set_affinity_irq(c, isi, line, -1) =>
            /\ ReturnedError(c)'
            /\ isi_list' = isi_list
            /\ affinity' = affinity
            /\ hw' = hw
            /\ iosapic_lock' = iosapic_lock
            /\ \A o \in CPUs \ { c } : cpu'[o] = cpu[o] ]_vars
\* a retarget was refused while the other processor holds the lock in the
\* middle of a mask; no affinity was set
C25_Witness ==
    \E c \in CPUs, o \in CPUs :
        /\ ReturnedError(c) /\ irq_calls >= 2
        /\ cpu[o].op = "mask" /\ iosapic_lock = o + 1 /\ InRegion(o)
        /\ affinity = << >>


====
